---- MODULE Spec2Model ----
(***************************************************************************)
(* A model of acachesuki: the expiring cache primitive, the beatmap        *)
(* resolver and the score-submission pipeline.                             *)
(*                                                                         *)
(* Time is counted in ticks of 1/TicksPerSec second, so that the           *)
(* truncation int(time.time()) of the cache is a real conversion.          *)
(***************************************************************************)
EXTENDS Integers, Sequences, FiniteSets, TLC

VARIABLES
    now,        \* wall clock, in ticks
    beatmap,    \* globs.cache.beatmap._cache: a dict, as the sequence of its items in insertion order
    nAdvances,  \* how often the clock has moved
    putLog,     \* history: the key and the time of every LRUCache.cache call
    removed,    \* history: LRUCache.remove_cache has been called
    objs,           \* the LWBeatmap objects in memory, by object id
    no_check_md5s,  \* globs.cache.no_check_md5s: md5 -> Status
    beatmaps,       \* store: table beatmaps, by beatmap_md5
    mirror,         \* external metadata service: md5 -> what it answers
    scores,         \* store: the score tables, rows in insertion order
    users_stats,    \* store: the stats tables, by <<user, mode>>
    statsObjs,      \* the Stats objects in memory, by object id
    stats,          \* globs.cache.stats._cache: <<user, mode>> -> Stats object id
    scores_first,   \* store: table scores_first, the first-place markers
    redis,          \* ranking store: board -> member -> score
    reqs,           \* the requests: position in the handler and its locals
    maxActive,      \* how many requests may be in progress at once
    inputs,         \* the submissions clients may send
    lbTest,         \* a Leaderboard on its own, with the calls made on it so far
    password,       \* globs.cache.password._cache: safe_name -> <<user id, known md5>>
    users,          \* store: table users, by username_safe
    auths,          \* the calls of BCryptCache.check_user: position and locals
    bus,            \* the channel cache:map_update, and the last message handled
    lookups         \* the lookup caches of globs.cache, the rows behind them, the reload in progress

cacheVars == <<beatmap, putLog, removed>>
clockVars == <<now, nAdvances>>
bmapVars == <<objs, no_check_md5s, beatmaps, mirror>>
scoreVars == <<scores, users_stats, statsObjs, stats, scores_first, redis>>
authVars == <<password, users, auths>>
envVars == <<maxActive, inputs, lbTest, authVars, bus, lookups>>
vars == <<now, nAdvances, beatmap, putLog, removed, objs, no_check_md5s, beatmaps,
          mirror, scores, users_stats, statsObjs, stats, scores_first, redis,
          reqs, maxActive, inputs, lbTest, password, users, auths, bus, lookups>>

None == 0

\* ---------------------------------------------------------------- bounds
TicksPerSec == 2
CacheLimit == 4
MaxPuts == 5
MaxAdvances == 2
MaxReqs == 2
MaxAdds == 3
MaxChecks == 3
MaxEvents == 1
MaxReloads == 2
MaxRowChanges == 2

\* ------------------------------------------------------- program constants
\* beatmap = LRUCache(cache_length=120, ...): minutes
CacheLengthMinutes == 120

\* ------------------------------------------------------------ time
\* int(time.time())
IntTime(t) == t \div TicksPerSec

\* self.length = cache_length * 60
length == CacheLengthMinutes * 60

\* ------------------------------------------------------------ python dict
\* tuple(self._cache)
GetCachedKeys(d) == [i \in 1..Len(d) |-> d[i].key]

HasKey(d, k) == \E i \in 1..Len(d) : d[i].key = k

\* d[k] = v: an existing key keeps its position, a new key goes last
DictSet(d, k, e) ==
    IF HasKey(d, k)
    THEN [i \in 1..Len(d) |-> IF d[i].key = k THEN e ELSE d[i]]
    ELSE Append(d, e)

\* try: del d[k] except KeyError: pass
RemoveCache(d, k) == SelectSeq(d, LAMBDA e : e.key # k)

\* keys[:c] of a Python sequence: a negative c counts from the end
PySlicePrefix(s, c) ==
    LET n == Len(s)
        m == IF c >= 0 THEN (IF c < n THEN c ELSE n)
                       ELSE (IF n + c > 0 THEN n + c ELSE 0)
    IN  SubSeq(s, 1, m)

SeqToSet(s) == {s[i] : i \in 1..Len(s)}

\* ------------------------------------------------------------ LRUCache
\* LRUCache._get_expired_cache counting the time-to-live twice
GetExpiredCacheLate(d, ts) == {d[i].key : i \in {j \in 1..Len(d) : d[j].expire + length < ts}}

\* LRUCache._get_expired_cache
GetExpiredCache(d, ts) == {d[i].key : i \in {j \in 1..Len(d) : d[j].expire < ts}}

\* LRUCache._remove_expired_cache
RemoveExpiredCache(d, ts) == SelectSeq(d, LAMBDA e : e.key \notin GetExpiredCache(d, ts))

\* LRUCache._remove_limit_cache
RemoveLimitCache(d) ==
    LET throw_away_count == Len(d) - CacheLimit
        throw_away_ids == SeqToSet(PySlicePrefix(GetCachedKeys(d), throw_away_count))
    IN  IF throw_away_count = 0 THEN d
        ELSE SelectSeq(d, LAMBDA e : e.key \notin throw_away_ids)

\* LRUCache.run_checks
RunChecks(d, t) == RemoveLimitCache(RemoveExpiredCache(d, IntTime(t)))

\* LRUCache.cache
CachePut(d, k, o, t) ==
    RunChecks(DictSet(d, k, [key |-> k, expire |-> IntTime(t) + length, object |-> o]), t)

\* LRUCache.get
CacheGet(d, k) ==
    IF HasKey(d, k) THEN (CHOOSE e \in SeqToSet(d) : e.key = k).object ELSE None

\* ------------------------------------------------------------ const.py
\* class Status
NOT_SUBMITTED == -1
PENDING == 0
UPDATE_AVAILABLE == 1
RANKED == 2
APPROVED == 3
LOVED == 5

\* Status.from_api
StatusFromApi(status) == IF status <= 0 THEN PENDING ELSE status + 1

\* class Mode: vanilla standard and relax standard
VN_STANDARD == 0
VN_MANIA == 3
RX_STANDARD == 4
Modes == {VN_STANDARD, RX_STANDARD}

\* Mode.as_mode_int (autopilot, mode 7, is not among Modes)
AsModeInt(mode) == IF mode > 3 THEN mode - 4 ELSE mode

\* Mode.relax
Relax(mode) == mode > 3 /\ mode # 7

\* Mode.scores_table
ScoresTable(mode) == IF Relax(mode) THEN "scores_relax" ELSE "scores"

\* ------------------------------------------------------------ beatmap.py
UPDATE_SKIP_STATUSES == {RANKED, APPROVED}

Hashes == {"M", "X"}
Procs == 1..MaxReqs

HourTicks == 3600 * TicksPerSec
DayTicks == 24 * HourTicks

\* a dict without key k: `del self._cache[user_id]`, the KeyError passed over
DictDel(d, k) == [x \in (DOMAIN d) \ {k} |-> d[x]]

\* a dict d with d[k] = v
DictPut(d, k, v) == [x \in (DOMAIN d) \cup {k} |-> IF x = k THEN v ELSE d[x]]

\* the dataclass LWBeatmap; lbs are the leaderboards attached to it, by mode
LWBeatmap(md5, status, ts, frozen, playcount, passcount) ==
    [md5 |-> md5, status |-> status, frozen |-> frozen,
     last_update_ts |-> [kind |-> "datetime", t |-> ts],
     playcount |-> playcount, passcount |-> passcount, lbs |-> <<>>]

\* LWBeatmap.blank_with_status, called when the module is imported
BlankWithStatus(st) == LWBeatmap("", st, 0, FALSE, 0, 0)

\* the module-level objects UPDATE_BMAP and NOT_SUB_BMAP, by object id
UPDATE_BMAP == 1
NOT_SUB_BMAP == 2
BlankObjs == <<BlankWithStatus(UPDATE_AVAILABLE), BlankWithStatus(NOT_SUBMITTED)>>

\* LWBeatmap.from_db, for a row that exists
BmapFromRow(row) ==
    LWBeatmap(row.md5, row.status, row.latest_update, row.frozen, row.playcount, row.passcount)

\* what get_bmap_fumos answers: a dict, a string (no such beatmap), or an exception
NotFound == [kind |-> "str", file_md5 |-> "", approved |-> 0, last_update |-> 0]
RequestError == [kind |-> "error", file_md5 |-> "", approved |-> 0, last_update |-> 0]
ApiDict(md5, approved) == [kind |-> "dict", file_md5 |-> md5, approved |-> approved, last_update |-> 0]

\* LWBeatmap.from_oapiv1_dict
BmapFromOapiv1Dict(resp) ==
    LWBeatmap(resp.file_md5, StatusFromApi(resp.approved), resp.last_update, FALSE, 0, 0)

\* LWBeatmap.save: the row REPLACEd INTO beatmaps
RowOfBmap(o) ==
    [md5 |-> o.md5, status |-> o.status, frozen |-> o.frozen,
     latest_update |-> o.last_update_ts.t, playcount |-> o.playcount, passcount |-> o.passcount]

\* LWBeatmap.deserves_update; `now - float` raises the TypeError it catches
DeservesUpdate(o, t) ==
    IF o.frozen \/ o.status \notin UPDATE_SKIP_STATUSES THEN TRUE
    ELSE IF o.last_update_ts.kind # "datetime" THEN FALSE
    ELSE LET update_delta == t - o.last_update_ts.t
             days == update_delta \div DayTicks
         IN  365 * update_delta > 365 * 2 * HourTicks + 5 * days * HourTicks

\* LWBeatmap.has_leaderboard
HasLeaderboard(o) == o.status >= RANKED

\* ------------------------------------------------------------ leaderboards
Users == {7, 8}

\* a row of users_stats / rx_stats, for one mode
StatsRow(ranked_score, total_score, pp, playcount) ==
    [ranked_score |-> ranked_score, total_score |-> total_score, pp |-> pp, playcount |-> playcount]

\* the ranking metric of a mode: `scoring = "pp" if mode > Mode.VN_MANIA else "score"`
Metric(mode, e) == IF mode > VN_MANIA THEN e.pp ELSE e.score

\* a Score as a Leaderboard holds it
LbEntry(id, user_id, score, pp) == [id |-> id, user_id |-> user_id, score |-> score, pp |-> pp]

\* e put into the descending list s behind every entry that does not rank below it
InsertDesc(s, e, mode) ==
    LET k == Cardinality({i \in 1..Len(s) : Metric(mode, s[i]) >= Metric(mode, e)})
    IN  SubSeq(s, 1, k) \o <<e>> \o SubSeq(s, k + 1, Len(s))

\* the stable sort, descending by the ranking metric
SortDesc(s, mode) ==
    LET f[n \in 0..Len(s)] == IF n = 0 THEN <<>> ELSE InsertDesc(f[n - 1], s[n], mode)
    IN  f[Len(s)]

\* Leaderboard.remove_user
RemoveUser(s, user_id) == SelectSeq(s, LAMBDA e : e.user_id # user_id)

\* Leaderboard.add_score keeping the entry the user already has
AddScoreKeepOld(s, e, mode) == SortDesc(Append(s, e), mode)

\* Leaderboard.add_score
AddScore(s, e, mode) == SortDesc(Append(RemoveUser(s, e.user_id), e), mode)

\* Leaderboard.find_score_rank
FindScoreRank(s, id) ==
    IF \E i \in 1..Len(s) : s[i].id = id
    THEN CHOOSE i \in 1..Len(s) : s[i].id = id /\ \A j \in 1..(i - 1) : s[j].id # id
    ELSE 0

\* Leaderboard.find_user_score: the rank of the user's entry, 0 for none
FindUserRank(s, user_id) ==
    IF \E i \in 1..Len(s) : s[i].user_id = user_id
    THEN CHOOSE i \in 1..Len(s) : s[i].user_id = user_id /\ \A j \in 1..(i - 1) : s[j].user_id # user_id
    ELSE 0

\* a Leaderboard of a mode before any call, and the calls made on it:
\* n counts add_score, last[u] is the id last added for u, 0 after remove_user
NoLeaderboard == [mode |-> VN_STANDARD, list |-> <<>>, n |-> 0, last |-> [u \in Users |-> 0]]

\* ------------------------------------------------------------ requests
NoScore == [id |-> 0, user_id |-> 0, score |-> 0, pp |-> 0, rank |-> 0]
NoInput == [user |-> 0, md5 |-> "", mode |-> VN_STANDARD, score |-> 0, pp |-> 0,
            passed |-> FALSE, quit |-> FALSE, checksum |-> "", unranked |-> FALSE,
            token |-> TRUE, replay |-> "ok"]

\* score.status before calc_status has set it
NoStatus == -2

\* history: the record as `if bmap.deserves_update` of try_bmap found it
NotSeen == [made |-> FALSE, frozen |-> FALSE, status |-> 0, age |-> 0, float |-> FALSE]
Seen(o, t) ==
    [made |-> TRUE, frozen |-> o.frozen, status |-> o.status, age |-> t - o.last_update_ts.t,
     float |-> o.last_update_ts.kind # "datetime"]

\* a request that has not arrived; the fields are the handler's locals, with
\* the requests in progress when it arrived, pre the store and the memory as
\* they were then, and
\* nDb, nApi, onList, missedAll, nRecheck, recheckedFrozen, dbRow, savedFirst,
\* cachedFirst are history: what try_bmap did for this request (dbRow: from_db
\* found a row; savedFirst, cachedFirst: line 280 saved, line 281 cached the
\* record; seen: the record the staleness decision was taken on; recheck: how
\* the staleness check ended; superseded: the object it replaced; firstAnswer:
\* what the service answered to the lookup); nRestrict: the calls of
\* restrict_user made for the request; recalc: "recomputed" once Stats.recalc
\* has run its SELECT of the pp values for the request; failed is the
\* call that raised, if one did
IdleReq ==
    [pc |-> "idle", kind |-> "", md5 |-> "", in |-> NoInput,
     res |-> 0, bmap |-> None, out |-> "",
     status |-> NoStatus, pp |-> 0, previous_score |-> NoScore,
     id |-> 0, rank |-> 0, stats |-> None, old_pp |-> 0, with |-> {}, pre |-> <<>>,
     failed |-> "",
     nDb |-> 0, nApi |-> 0, onList |-> FALSE, missedAll |-> FALSE,
     nRecheck |-> 0, recheckedFrozen |-> FALSE,
     dbRow |-> FALSE, savedFirst |-> FALSE, cachedFirst |-> FALSE,
     seen |-> NotSeen, recheck |-> "", superseded |-> None, firstAnswer |-> "",
     nRestrict |-> 0, recalc |-> ""]

Active(r) == r.pc \notin {"idle", "done"}
NActive == Cardinality({p \in Procs : Active(reqs[p])})

\* ------------------------------------------------------------ cache actions
\* the keys put so far; a fresh key is always the next unused number
KeysPut == {putLog[i].key : i \in 1..Len(putLog)}

\* the clock moves on by half a second, or by the cache's time-to-live
Steps == {1, length * TicksPerSec}

Advance(d) ==
    /\ nAdvances < MaxAdvances
    /\ now' = now + d
    /\ nAdvances' = nAdvances + 1
    /\ UNCHANGED <<cacheVars, bmapVars, scoreVars, envVars, reqs>>

Cache(k, o) ==
    /\ Len(putLog) < MaxPuts
    /\ beatmap' = CachePut(beatmap, k, o, now)
    /\ putLog' = Append(putLog, [key |-> k, at |-> now])
    /\ UNCHANGED <<clockVars, removed, bmapVars, scoreVars, envVars, reqs>>

Remove(k) ==
    /\ beatmap' = RemoveCache(beatmap, k)
    /\ removed' = TRUE
    /\ UNCHANGED <<clockVars, putLog, bmapVars, scoreVars, envVars, reqs>>

\* the clock and the cache primitive after construction
ClockCacheInit ==
    /\ now = 0
    /\ nAdvances = 0
    /\ beatmap = <<>>
    /\ putLog = <<>>
    /\ removed = FALSE

\* a call of check_user that has not been made; row, hit and cacheAt are
\* history: the row the SELECT returned, whether the cache answered, and the
\* credential cache as the call found it
IdleAuth ==
    [pc |-> "idle", safe_name |-> "", pw_md5 |-> "", ret |-> 0, hit |-> FALSE,
     row |-> <<>>, cacheAt |-> <<>>]

\* nobody has logged in and no user is registered
NoAuthInit ==
    /\ password = <<>>
    /\ users = <<>>
    /\ auths = [a \in 1..MaxChecks |-> IdleAuth]

\* no message has been published on cache:map_update; n counts the messages,
\* pending is the hash of the one in flight, and md5, arrived, quiet, nObjs
\* are history: the hash of the last message handled, how many requests had
\* arrived by then, whether none was in progress, and how many beatmap objects
\* had been made; status and calm: the status the store was changed to, and
\* whether no request was in progress at the change
NoBus ==
    [n |-> 0, pending |-> "", md5 |-> "", arrived |-> 0, quiet |-> FALSE, nObjs |-> 0,
     status |-> 0, calm |-> FALSE]

\* the lookup caches of globs.cache by name, and the table each is loaded from
Kinds == {"priv", "country", "clan", "whitelist", "friends", "stats"}
Tables == {"users", "users_stats", "user_clans", "users_relationships"}
TableOf(kind) ==
    CASE kind \in {"priv", "whitelist"} -> "users"
      [] kind \in {"country", "stats"} -> "users_stats"
      [] kind = "clan" -> "user_clans"
      [] kind = "friends" -> "users_relationships"

\* no cache_individual is running
IdleReload == [pc |-> "idle", kind |-> "", user_id |-> 0, hadRow |-> FALSE, out |-> ""]

\* the lookup caches empty, no rows, nothing reloaded; restricted are the users
\* whose privileges, in table users and in cache.priv, have lost the public bit
NoLookups ==
    [cache |-> [k \in Kinds |-> <<>>], rows |-> [t \in Tables |-> {}], call |-> IdleReload,
     n |-> 0, nRows |-> 0, restricted |-> {}]

\* no score has been submitted and no Stats object is loaded
ScoresInit ==
    /\ scores = <<>>
    /\ users_stats = [k \in Users \X Modes |-> StatsRow(0, 0, 0, 0)]
    /\ statsObjs = <<>>
    /\ stats = <<>>
    /\ scores_first = {}
    /\ redis = [m \in Modes |-> <<>>]

\* no request is being handled
QuietInit ==
    /\ ScoresInit
    /\ objs = BlankObjs
    /\ no_check_md5s = <<>>
    /\ beatmaps = <<>>
    /\ mirror = [h \in Hashes |-> NotFound]
    /\ reqs = [p \in Procs |-> IdleReq]
    /\ maxActive = 0
    /\ inputs = {}
    /\ NoAuthInit
    /\ bus = NoBus
    /\ lookups = NoLookups

CacheInit ==
    /\ ClockCacheInit
    /\ QuietInit
    /\ lbTest = NoLeaderboard

CacheNext ==
    \/ \E d \in Steps : Advance(d)
    \/ \E k \in 1..(Cardinality(KeysPut) + 1) : Cache(k, 1)
    \/ \E k \in KeysPut : Remove(k)

SpecCache == CacheInit /\ [][CacheNext]_vars

\* ------------------------------------------------------------ cache claims
\* every cache call so far put a key of its own, nothing was removed by hand,
\* and no entry put so far is past its expiry instant
OnlyDistinctUnexpiredPuts ==
    /\ Cardinality(KeysPut) = Len(putLog)
    /\ ~removed
    /\ \A i \in 1..Len(putLog) : ~(IntTime(putLog[i].at) + length < IntTime(now))

LastPuts(n) == {putLog[i].key : i \in {j \in 1..Len(putLog) : j > Len(putLog) - n}}

\* C3: after cache() has been called with N > limit distinct keys and no entry
\* has expired, the cache holds exactly `limit` entries, the `limit` most
\* recently inserted keys.
C3_CapacityKeepsLimitNewest ==
    (Len(putLog) > CacheLimit /\ OnlyDistinctUnexpiredPuts)
        => /\ Len(beatmap) = CacheLimit
           /\ SeqToSet(GetCachedKeys(beatmap)) = LastPuts(CacheLimit)

\* the index in putLog of the last cache() call for key k
LastPutIdx(k) == CHOOSE i \in 1..Len(putLog) :
    putLog[i].key = k /\ \A j \in (i + 1)..Len(putLog) : putLog[j].key # k

\* C4 as stated: once more than the time-to-live has elapsed since key k was
\* put, and an eviction pass (a later cache() call) has run after that, get(k)
\* returns empty.  Elapsed time is wall-clock time.
C4_TtlElapsedRealTime ==
    \A k \in KeysPut :
        (\E j \in (LastPutIdx(k) + 1)..Len(putLog) :
            putLog[j].at - putLog[LastPutIdx(k)].at > length * TicksPerSec)
        => CacheGet(beatmap, k) = None

\* C4 amended: once an eviction pass has run at a whole-second clock reading
\* that exceeds the whole-second reading at the put of k by more than the
\* time-to-live, get(k) returns empty.
C4_TtlElapsedWholeSeconds ==
    \A k \in KeysPut :
        (\E j \in (LastPutIdx(k) + 1)..Len(putLog) :
            IntTime(putLog[j].at) - IntTime(putLog[LastPutIdx(k)].at) > length)
        => CacheGet(beatmap, k) = None

\* a key that was put, outlived its time-to-live, saw one eviction pass and is
\* gone, while the entry whose put triggered the pass is cached
C4_Witness ==
    /\ ~removed
    /\ Len(putLog) = 2
    /\ putLog[1].key # putLog[2].key
    /\ IntTime(putLog[2].at) - IntTime(putLog[1].at) > length
    /\ CacheGet(beatmap, putLog[1].key) = None
    /\ CacheGet(beatmap, putLog[2].key) # None

\* the entry that cache() stores for object o at time t
CachedObject(k, o, t) == [key |-> k, expire |-> IntTime(t) + length, object |-> o]

\* the cache right after `self._cache[key] = {...}`, before run_checks
Inserted(d, k, t) == DictSet(d, k, CachedObject(k, 1, t))

\* an entry that _get_expired_cache does not list at time t
Unexpired(e, t) == ~(e.expire < IntTime(t))

\* C32: LRUCache.cache never removes an unexpired entry while the number of
\* entries after the insert is at most the capacity limit.
C32_UnderLimitKeepsUnexpired ==
    [][(putLog' # putLog) =>
        LET ins == Inserted(beatmap, putLog'[Len(putLog')].key, now)
        IN  Len(ins) <= CacheLimit =>
                \A e \in SeqToSet(ins) : Unexpired(e, now) => HasKey(beatmap', e.key)]_vars

\* ------------------------------------------------------------ AsyncLRUCache
\* AsyncLRUCache.run_checks: `self._remove_expired_cache()` and
\* `self._remove_limit_cache()` call coroutine functions without await; each
\* call makes a coroutine object that is dropped without having run
AsyncRunChecks(d, t) == d

\* AsyncLRUCache.cache, a plain function that does not take the lock
AsyncCachePut(d, k, o, t) == AsyncRunChecks(DictSet(d, k, CachedObject(k, o, t)), t)

\* a task calls cache(k, o) on an AsyncLRUCache built like globs.cache.beatmap;
\* the variable beatmap holds its _cache
AsyncCache(k, o) ==
    /\ Len(putLog) < MaxPuts
    /\ beatmap' = AsyncCachePut(beatmap, k, o, now)
    /\ putLog' = Append(putLog, [key |-> k, at |-> now])
    /\ UNCHANGED <<clockVars, removed, bmapVars, scoreVars, envVars, reqs>>

\* another task awaits remove_cache(k): the lock is free whenever a task is
\* scheduled, since no holder awaits, so acquire, del and release are one step
AsyncRemove(k) ==
    /\ beatmap' = RemoveCache(beatmap, k)
    /\ removed' = TRUE
    /\ UNCHANGED <<clockVars, putLog, bmapVars, scoreVars, envVars, reqs>>

AsyncCacheNext ==
    \/ \E d \in Steps : Advance(d)
    \/ \E k \in 1..(Cardinality(KeysPut) + 1) : AsyncCache(k, 1)
    \/ \E k \in KeysPut : AsyncRemove(k)

SpecAsyncCache == CacheInit /\ [][AsyncCacheNext]_vars

\* C31: when AsyncLRUCache.cache returns, no expired entry remains and the
\* count is at most the capacity limit; the insert and both eviction passes are
\* one step, with no other task's mutation between them.
C31_PutEvictsInOneSection ==
    [][(putLog' # putLog) =>
        /\ GetExpiredCache(beatmap', IntTime(now)) = {}
        /\ Len(beatmap') <= CacheLimit
        /\ beatmap' = RunChecks(Inserted(beatmap, putLog'[Len(putLog')].key, now), now)]_vars

\* ------------------------------------------------------------ try_bmap
SetReq(p, r) == reqs' = [reqs EXCEPT ![p] = r]

\* Score.from_score_submission after `score.map = (await try_bmap(...))[1]`, and
\* handle_submission's `if not score.map` for the score it returns without a map
ScoreAfterBmap(r) ==
    IF r.bmap = None THEN [r EXCEPT !.pc = "done", !.out = "error: beatmap"]
    ELSE [r EXCEPT !.pc = "calc_pp"]

\* `return FetchResult(res), bmap`: FetchResult has no member above API
TryBmapReturn(r, res, b) ==
    LET r1 == [r EXCEPT !.res = res, !.bmap = b]
    IN  IF res > 3 THEN [r1 EXCEPT !.pc = "done", !.out = "exception"]
        ELSE IF r.kind = "resolve" THEN [r1 EXCEPT !.pc = "done", !.out = "ok"]
        ELSE ScoreAfterBmap(r1)

\* try_bmap from `if not bmap` (give up) to the await of the staleness check or
\* to the return; b is the object found, os the objects in memory at that point
TryBmapFound(p, r, b, res, os) ==
    IF b = None
    THEN /\ no_check_md5s' = DictPut(no_check_md5s, r.md5, NOT_SUBMITTED)
         /\ SetReq(p, TryBmapReturn([r EXCEPT !.missedAll = TRUE], 0, None))
    ELSE IF os[b].status = UPDATE_AVAILABLE
    THEN /\ no_check_md5s' = DictPut(no_check_md5s, r.md5, UPDATE_AVAILABLE)
         /\ SetReq(p, TryBmapReturn(r, 0, None))
    ELSE IF DeservesUpdate(os[b], now)
    THEN /\ SetReq(p, [r EXCEPT !.pc = "akat_update", !.res = res, !.bmap = b,
                                !.seen = Seen(os[b], now)])
         /\ UNCHANGED no_check_md5s
    ELSE /\ SetReq(p, TryBmapReturn([r EXCEPT !.seen = Seen(os[b], now)], res, b))
         /\ UNCHANGED no_check_md5s

\* `if st := cache.no_check_md5s.get(md5)` honouring only UPDATE_AVAILABLE
OnNoCheckListUpdateOnly(md5) ==
    md5 \in DOMAIN no_check_md5s /\ no_check_md5s[md5] = UPDATE_AVAILABLE

\* `if st := cache.no_check_md5s.get(md5)`: listed with a status that is not 0
OnNoCheckList(md5) ==
    md5 \in DOMAIN no_check_md5s /\ no_check_md5s[md5] # 0

\* try_bmap from its entry to its first await: the no-check list, then the cache
TryBmapEnter(p) ==
    LET r == reqs[p]
        onList == OnNoCheckList(r.md5)
        r1 == [r EXCEPT !.onList = onList]
    IN  /\ r.pc = "try_bmap"
        /\ IF onList
           THEN /\ SetReq(p, TryBmapReturn(r1, 0,
                        IF no_check_md5s[r.md5] = UPDATE_AVAILABLE THEN UPDATE_BMAP ELSE NOT_SUB_BMAP))
                /\ UNCHANGED no_check_md5s
           ELSE IF CacheGet(beatmap, r.md5) = None
           THEN /\ SetReq(p, [r1 EXCEPT !.pc = "from_db", !.res = 2])
                /\ UNCHANGED no_check_md5s
           ELSE TryBmapFound(p, r1, CacheGet(beatmap, r.md5), 1, objs)
        /\ UNCHANGED <<clockVars, cacheVars, objs, beatmaps, mirror, scoreVars, envVars>>

\* `bmap = await LWBeatmap.from_db(md5, cur)`
FromDb(p) ==
    LET r == [reqs[p] EXCEPT !.nDb = @ + 1]
    IN  /\ r.pc = "from_db"
        /\ IF r.md5 \in DOMAIN beatmaps
           THEN /\ objs' = Append(objs, BmapFromRow(beatmaps[r.md5]))
                /\ SetReq(p, [r EXCEPT !.pc = "save_first", !.bmap = Len(objs) + 1,
                                        !.dbRow = TRUE])
           ELSE /\ SetReq(p, [r EXCEPT !.pc = "akat_first", !.res = 3])
                /\ UNCHANGED objs
        /\ UNCHANGED <<clockVars, cacheVars, no_check_md5s, beatmaps, mirror, scoreVars, envVars>>

\* what get_bmap_fumos may answer for md5
Answers(md5) == {mirror[md5], RequestError}

\* `bmap = await LWBeatmap.from_akat_mirror(md5)` after both local sources missed
AkatFirst(p, resp) ==
    LET r == [reqs[p] EXCEPT !.nApi = @ + 1, !.firstAnswer = resp.kind]
    IN  /\ r.pc = "akat_first"
        /\ IF resp.kind = "dict"
           THEN /\ objs' = Append(objs, BmapFromOapiv1Dict(resp))
                /\ SetReq(p, [r EXCEPT !.pc = "save_first", !.bmap = Len(objs) + 1])
                /\ UNCHANGED no_check_md5s
           ELSE /\ TryBmapFound(p, r, None, 3, objs)
                /\ UNCHANGED objs
        /\ UNCHANGED <<clockVars, cacheVars, beatmaps, mirror, scoreVars, envVars>>

\* `await bmap.save(cur); bmap.cache()` and on to the staleness check
SaveFirst(p) ==
    LET b == reqs[p].bmap
        o == [objs[b] EXCEPT !.last_update_ts.kind = "datetime"]
        cached == CachePut(beatmap, o.md5, b, now)
        r == [reqs[p] EXCEPT !.nDb = @ + 1, !.savedFirst = TRUE,
                             !.cachedFirst = (CacheGet(cached, o.md5) = b)]
    IN  /\ reqs[p].pc = "save_first"
        /\ beatmaps' = DictPut(beatmaps, o.md5, RowOfBmap(o))
        /\ objs' = [objs EXCEPT ![b] = o]
        /\ beatmap' = cached
        /\ TryBmapFound(p, r, b, r.res, objs')
        /\ UNCHANGED <<clockVars, putLog, removed, mirror, scoreVars, envVars>>

\* the staleness check stamping the object whatever the service answered
CheckedAlways(os, b, resp, t) == [os EXCEPT ![b].last_update_ts = [kind |-> "float", t |-> t]]

\* `if current_data: bmap.last_update_ts = time.time()`: the objects in memory
\* after the service answered resp to the staleness check of object b
Checked(os, b, resp, t) ==
    IF resp.kind = "dict" THEN [os EXCEPT ![b].last_update_ts = [kind |-> "float", t |-> t]] ELSE os

\* `current_data = await LWBeatmap.from_akat_mirror(md5)`, the staleness check
AkatUpdate(p, resp) ==
    LET r == [reqs[p] EXCEPT !.nApi = @ + 1, !.nRecheck = @ + 1,
                             !.recheckedFrozen = objs[reqs[p].bmap].frozen]
        b == r.bmap
        stamped == Checked(objs, b, resp, now)
        current_data == BmapFromOapiv1Dict(resp)
    IN  /\ r.pc = "akat_update"
        /\ IF resp.kind # "dict"
           THEN /\ objs' = stamped
                /\ SetReq(p, TryBmapReturn([r EXCEPT !.recheck = resp.kind], r.res, b))
                /\ UNCHANGED beatmap
           ELSE IF current_data.md5 = objs[b].md5
           THEN /\ objs' = stamped
                /\ SetReq(p, TryBmapReturn([r EXCEPT !.recheck = "same"], r.res, b))
                /\ UNCHANGED beatmap
           ELSE /\ objs' = Append(stamped, current_data)
                /\ beatmap' = CachePut(beatmap, current_data.md5, Len(objs) + 1, now)
                /\ SetReq(p, [r EXCEPT !.pc = "save_update", !.bmap = Len(objs) + 1,
                                        !.recheck = "replaced", !.superseded = b])
        /\ UNCHANGED <<clockVars, putLog, removed, no_check_md5s, beatmaps, mirror, scoreVars, envVars>>

\* `await bmap.save(cur); res += 1` for the replacement, and the return
SaveUpdate(p) ==
    LET r == [reqs[p] EXCEPT !.nDb = @ + 1]
        b == r.bmap
        o == [objs[b] EXCEPT !.last_update_ts.kind = "datetime"]
    IN  /\ r.pc = "save_update"
        /\ beatmaps' = DictPut(beatmaps, o.md5, RowOfBmap(o))
        /\ objs' = [objs EXCEPT ![b] = o]
        /\ SetReq(p, TryBmapReturn(r, r.res + 1, b))
        /\ UNCHANGED <<clockVars, cacheVars, no_check_md5s, mirror, scoreVars, envVars>>

\* one step of try_bmap for request p
TryBmapStep(p) ==
    \/ TryBmapEnter(p)
    \/ FromDb(p)
    \/ reqs[p].pc = "akat_first" /\ \E resp \in Answers(reqs[p].md5) : AkatFirst(p, resp)
    \/ SaveFirst(p)
    \/ reqs[p].pc = "akat_update" /\ \E resp \in Answers(reqs[p].md5) : AkatUpdate(p, resp)
    \/ SaveUpdate(p)

\* a request arrives when fewer than maxActive are in progress
MayStart(p) ==
    /\ reqs[p].pc = "idle"
    /\ \A q \in Procs : q < p => reqs[q].pc # "idle"
    /\ NActive < maxActive

\* a caller of try_bmap other than score submission (the leaderboard handler)
StartResolve(p, md5) ==
    /\ MayStart(p)
    /\ SetReq(p, [IdleReq EXCEPT !.pc = "try_bmap", !.kind = "resolve", !.md5 = md5])
    /\ UNCHANGED <<clockVars, cacheVars, bmapVars, scoreVars, envVars>>

\* the rows table beatmaps may hold for the resolvable hash
BeatmapRows ==
    {[md5 |-> "M", status |-> st, frozen |-> fr, latest_update |-> 0, playcount |-> 0, passcount |-> 0] :
        st \in {PENDING, UPDATE_AVAILABLE, RANKED}, fr \in BOOLEAN}

\* the store and the service hold anything for "M" and nothing for "X"
BmapInit ==
    /\ ClockCacheInit
    /\ objs = BlankObjs
    /\ no_check_md5s = <<>>
    /\ beatmaps \in {<<>>} \cup {DictPut(<<>>, "M", row) : row \in BeatmapRows}
    /\ mirror \in {[h \in Hashes |-> IF h = "M" THEN a ELSE NotFound] :
                        a \in {NotFound, ApiDict("M", 1), ApiDict("M", 0), ApiDict("N", 1)}}
    /\ ScoresInit
    /\ lbTest = NoLeaderboard
    /\ reqs = [p \in Procs |-> IdleReq]
    /\ maxActive = 1
    /\ inputs = {}
    /\ NoAuthInit
    /\ bus = NoBus
    /\ lookups = NoLookups

BmapNext ==
    \/ \E d \in Steps : Advance(d)
    \/ \E p \in Procs, md5 \in Hashes : StartResolve(p, md5)
    \/ \E p \in Procs : TryBmapStep(p)

SpecBmap == BmapInit /\ [][BmapNext]_vars

\* ------------------------------------------------------------ claims about try_bmap
\* the calls to the external service that request q and the requests after it
\* have made for the hash of q
ApiCallsSince(q) ==
    LET f[n \in 0..MaxReqs] ==
            IF n = 0 THEN 0
            ELSE f[n - 1] + (IF n >= q /\ reqs[n].md5 = reqs[q].md5 THEN reqs[n].nApi ELSE 0)
    IN  f[MaxReqs]

\* request q resolved its hash to a miss in the cache, the store and the service
Unresolved(q) == reqs[q].pc = "done" /\ reqs[q].missedAll

\* C5: a hash that missed in the cache, the store and the external service is on
\* the no-check list as not submitted; every resolution of that hash that comes
\* after it queries neither the store nor the service, so that the resolutions
\* of the hash have made exactly one call to the service between them.
C5_AbsentMemoStopsIO ==
    \A q \in Procs : Unresolved(q) =>
        /\ reqs[q].md5 \in DOMAIN no_check_md5s
        /\ no_check_md5s[reqs[q].md5] = NOT_SUBMITTED
        /\ reqs[q].nApi = 1
        /\ \A p \in Procs : (p > q /\ reqs[p].md5 = reqs[q].md5) =>
                /\ reqs[p].nDb = 0
                /\ reqs[p].nApi = 0
        /\ ApiCallsSince(q) = 1

\* two resolutions of the unresolvable hash have run one after the other
C5_Witness ==
    /\ Unresolved(1)
    /\ reqs[1].md5 = "X"
    /\ reqs[2].md5 = "X"
    /\ reqs[2].pc = "done"
    /\ reqs[2].onList
    /\ reqs[2].bmap = NOT_SUB_BMAP
    /\ ApiCallsSince(1) = 1

\* C6: try_bmap makes no staleness re-check at the external service for a
\* record whose frozen flag is set.
C6_FrozenNeverRechecked ==
    \A p \in Procs : reqs[p].nRecheck > 0 => ~reqs[p].recheckedFrozen

\* ------------------------------------------------------------ the invalidation bus
\* the status of a beatmap is changed in the store, and its hash and new status
\* are published on cache:map_update
StatusChanged(md5, new_status) ==
    /\ bus.n < MaxEvents
    /\ bus.pending = ""
    /\ md5 \in DOMAIN beatmaps
    /\ beatmaps[md5].status # new_status
    /\ beatmaps' = [beatmaps EXCEPT ![md5].status = new_status]
    /\ bus' = [bus EXCEPT !.n = @ + 1, !.pending = md5, !.status = new_status,
                          !.calm = (NActive = 0)]
    /\ UNCHANGED <<clockVars, cacheVars, objs, no_check_md5s, mirror, scoreVars, reqs,
                   maxActive, inputs, lbTest, authVars, lookups>>

\* handle_status_update: `beatmap.remove_cache(md5)`; the Leaderboards hang on
\* the beatmap object and go with it
HandleStatusUpdate ==
    /\ bus.pending # ""
    /\ beatmap' = RemoveCache(beatmap, bus.pending)
    /\ removed' = TRUE
    /\ bus' = [bus EXCEPT !.pending = "", !.md5 = bus.pending,
                          !.arrived = Cardinality({p \in Procs : reqs[p].pc # "idle"}),
                          !.quiet = (NActive = 0), !.nObjs = Len(objs)]
    /\ UNCHANGED <<clockVars, putLog, bmapVars, scoreVars, reqs, maxActive, inputs, lbTest,
                   authVars, lookups>>

BusNext ==
    \/ BmapNext
    \/ \E md5 \in Hashes, st \in {PENDING, RANKED} : StatusChanged(md5, st)
    \/ HandleStatusUpdate

SpecBus == BmapInit /\ [][BusNext]_vars

\* request p is the first resolution of the hash of the last message handled
\* that arrived after the message was handled
NextAfterEvent(p) ==
    /\ bus.md5 # ""
    /\ p > bus.arrived
    /\ reqs[p].pc # "idle"
    /\ reqs[p].md5 = bus.md5
    /\ \A q \in Procs : (bus.arrived < q /\ q < p) => reqs[q].md5 # bus.md5

\* C15: once a map-status-changed message for a hash has been handled (with no
\* request in progress), the beatmap cache has no entry for the hash until the
\* next resolution of it, and that resolution is not answered by the no-check
\* list or the cache: it reads the store, and what it returns is not a beatmap
\* object from before the message, so that no Leaderboard attached before it is
\* served.
C15_EventForcesReread ==
    bus.quiet =>
        /\ (bus.md5 # "" /\ ~\E p \in Procs : NextAfterEvent(p)) => ~HasKey(beatmap, bus.md5)
        /\ \A p \in Procs : (NextAfterEvent(p) /\ reqs[p].pc = "done") =>
                /\ ~reqs[p].onList
                /\ reqs[p].nDb >= 1
                /\ reqs[p].bmap = None \/ reqs[p].bmap > bus.nObjs

\* the status change of a hash and its message have both been dealt with,
\* and so have all resolutions
ChangeSettled ==
    /\ bus.md5 # ""
    /\ bus.pending = ""
    /\ NActive = 0

\* C33: a resolution that got its record from the store never overwrites a
\* newer store record: however a resolution of a hash interleaves with a status
\* change of the hash in the store and its message, once both have finished the
\* store holds the new status and the beatmap cache does not hold the record of
\* before the change.
C33_ResolutionKeepsNewerRow ==
    (ChangeSettled /\ \E p \in Procs : reqs[p].md5 = bus.md5 /\ reqs[p].dbRow) =>
        /\ bus.md5 \in DOMAIN beatmaps
        /\ beatmaps[bus.md5].status = bus.status
        /\ HasKey(beatmap, bus.md5) => objs[CacheGet(beatmap, bus.md5)].status = bus.status

\* the external service comes to know the beatmap of a hash
ServiceLearns(md5) ==
    /\ mirror[md5] = NotFound
    /\ mirror' = [mirror EXCEPT ![md5] = ApiDict(md5, 1)]
    /\ UNCHANGED <<clockVars, cacheVars, objs, no_check_md5s, beatmaps, scoreVars, reqs, envVars>>

\* a beatmap the store did not have is ranked by hand: its row is inserted, and
\* its hash and status are published on cache:map_update
RowAdded(md5) ==
    /\ bus.n < MaxEvents
    /\ bus.pending = ""
    /\ md5 \notin DOMAIN beatmaps
    /\ beatmaps' = DictPut(beatmaps, md5, RowOfBmap(LWBeatmap(md5, RANKED, 0, FALSE, 0, 0)))
    /\ bus' = [bus EXCEPT !.n = @ + 1, !.pending = md5, !.status = RANKED,
                          !.calm = (NActive = 0)]
    /\ UNCHANGED <<clockVars, cacheVars, objs, no_check_md5s, mirror, scoreVars, reqs,
                   maxActive, inputs, lbTest, authVars, lookups>>

\* resolutions one after the other while the store, the service and the bus change
MemoNext ==
    \/ BusNext
    \/ \E md5 \in Hashes : ServiceLearns(md5)
    \/ \E md5 \in Hashes : RowAdded(md5)

SpecMemo == BmapInit /\ [][MemoNext]_vars

\* the store or the external service can supply the beatmap of the hash
CanSupply(md5) == md5 \in DOMAIN beatmaps \/ mirror[md5].kind = "dict"

\* in this step the resolution p is answered by the no-check list with the
\* blank record of a beatmap that is not submitted
AnsweredAbsent(p) ==
    /\ reqs[p].pc = "try_bmap"
    /\ reqs'[p].pc = "done"
    /\ reqs'[p].onList
    /\ no_check_md5s[reqs[p].md5] = NOT_SUBMITTED

\* C35: a hash is on the no-check list because the external service failed or
\* did not know the beatmap; once the store or the service can supply the
\* beatmap, or a status message for the hash has been handled, a later
\* resolution returns the beatmap: none that starts from then on is answered by
\* the list.
C35_AbsentMemoRecovers ==
    [][\A p \in Procs :
        AnsweredAbsent(p) => (~CanSupply(reqs[p].md5) /\ bus.md5 # reqs[p].md5)]_vars

\* ------------------------------------------------------------ score submission
\* a row of scores / scores_relax
ScoreRow(table, md5, userid, score, pp, play_mode, completed, checksum) ==
    [table |-> table, beatmap_md5 |-> md5, userid |-> userid, score |-> score, pp |-> pp,
     play_mode |-> play_mode, completed |-> completed, checksum |-> checksum]

\* the ids of the rows of `table` WHERE userid, beatmap_md5, play_mode match and
\* completed = 3
BestRowIds(rows, table, userid, md5, play_mode) ==
    {i \in 1..Len(rows) :
        /\ rows[i].table = table
        /\ rows[i].userid = userid
        /\ rows[i].beatmap_md5 = md5
        /\ rows[i].play_mode = play_mode
        /\ rows[i].completed = 3}

\* the row a `LIMIT 1` picks, 0 if there is none
FirstOf(S) == IF S = {} THEN 0 ELSE CHOOSE i \in S : \A j \in S : i <= j

\* Leaderboard.get_leaderboard on a miss: the completed = 3 rows of the beatmap
\* and mode, in row order, sorted by the ranking metric
LoadLeaderboard(rows, md5, mode) ==
    LET S == {i \in 1..Len(rows) :
                /\ rows[i].table = ScoresTable(mode)
                /\ rows[i].beatmap_md5 = md5
                /\ rows[i].play_mode = AsModeInt(mode)
                /\ rows[i].completed = 3}
        f[n \in 0..Len(rows)] ==
            IF n = 0 THEN <<>>
            ELSE IF n \in S
                 THEN Append(f[n - 1], LbEntry(n, rows[n].userid, rows[n].score, rows[n].pp))
                 ELSE f[n - 1]
    IN  SortDesc(f[Len(rows)], mode)

\* the store and the memory as a submission finds them
Snapshot(in) ==
    [scores |-> scores, users_stats |-> users_stats, statsObjs |-> statsObjs, objs |-> objs,
     dup |-> \E i \in 1..Len(scores) :
                scores[i].table = ScoresTable(in.mode) /\ scores[i].checksum = in.checksum,
     unresolvable |-> \/ OnNoCheckList(in.md5)
                      \/ /\ CacheGet(beatmap, in.md5) = None
                         /\ in.md5 \notin DOMAIN beatmaps
                         /\ mirror[in.md5].kind # "dict"]

\* the request after an exception has left handle_submission: it is answered
\* with an error page
Raised(r, what) == [r EXCEPT !.pc = "done", !.out = "exception", !.failed = what]

\* restrict_user: `new_priv = privilege & ~1` written to table users and
\* reloaded into cache.priv
RestrictedLookups(l, user_id) == [l EXCEPT !.restricted = @ \cup {user_id}]

\* restrict_user: zrem from ripple:leaderboard:{mode} and
\* ripple:leaderboard_relax:{mode}; Stats.update_rank keeps the relax ranks
\* under ripple:relaxboard:{mode}, which is left alone
RedisAfterRestrict(rd, user_id) ==
    [m \in DOMAIN rd |-> IF Relax(m) THEN rd[m] ELSE DictDel(rd[m], user_id)]

\* `cache.priv.get(score.user_id) & 1`
IsPublic(user_id) == user_id \notin lookups.restricted

\* handle_submission from the score that from_score_submission returns to the
\* duplicate query or to restrict_user: the mods and the Token header; the
\* User-Agent is that of the osu! client
HandlerAfterScore(r) ==
    IF r.in.unranked THEN [r EXCEPT !.pc = "done", !.out = "error: no"]
    ELSE IF ~r.in.token THEN [r EXCEPT !.pc = "restrict_token"]
    ELSE [r EXCEPT !.pc = "dup_check"]

\* `await restrict_user(score.user_id, "Restricted for missing token header")`
RestrictToken(p) ==
    LET r == reqs[p]
    IN  /\ r.pc = "restrict_token"
        /\ lookups' = RestrictedLookups(lookups, r.in.user)
        /\ redis' = RedisAfterRestrict(redis, r.in.user)
        /\ SetReq(p, [r EXCEPT !.pc = "dup_check", !.nRestrict = @ + 1])
        /\ UNCHANGED <<clockVars, cacheVars, bmapVars, scores, users_stats, statsObjs, stats,
                       scores_first, maxActive, inputs, lbTest, authVars, bus>>

\* a submission arrives; check_user finds the fingerprint in the credential cache
\* or rejects it (user 0)
StartSubmit(p, in) ==
    LET r == [IdleReq EXCEPT !.kind = "submit", !.md5 = in.md5, !.in = in,
                             !.with = {q \in Procs : Active(reqs[q])}, !.pre = Snapshot(in)]
    IN  /\ MayStart(p)
        /\ SetReq(p, IF in.user = 0 THEN [r EXCEPT !.pc = "done", !.out = ""]
                     ELSE [r EXCEPT !.pc = "try_bmap"])
        /\ UNCHANGED <<clockVars, cacheVars, bmapVars, scoreVars, envVars>>

\* `await score.calc_pp()`: the map file of a blank beatmap (id 0) cannot be
\* calculated, which gives 0; then calc_status for a quit or a failed play
CalcPp(p) ==
    LET r0 == reqs[p]
        r == [r0 EXCEPT !.pp = IF r0.bmap \in {UPDATE_BMAP, NOT_SUB_BMAP} THEN 0 ELSE r0.in.pp]
    IN  /\ r0.pc = "calc_pp"
        /\ SetReq(p, IF r.in.quit THEN HandlerAfterScore([r EXCEPT !.status = 0])
                     ELSE IF ~r.in.passed THEN HandlerAfterScore([r EXCEPT !.status = 1])
                     ELSE [r EXCEPT !.pc = "calc_status_update"])
        /\ UNCHANGED <<clockVars, cacheVars, bmapVars, scoreVars, envVars>>

\* calc_status: `UPDATE {table} SET completed = 2 WHERE ... AND pp < {self.pp} LIMIT 1`
CalcStatusUpdate(p) ==
    LET r == reqs[p]
        best == BestRowIds(scores, ScoresTable(r.in.mode), r.in.user, objs[r.bmap].md5,
                           AsModeInt(r.in.mode))
        hit == FirstOf({i \in best : scores[i].pp < r.pp})
    IN  /\ r.pc = "calc_status_update"
        /\ scores' = IF hit = 0 THEN scores ELSE [scores EXCEPT ![hit].completed = 2]
        /\ SetReq(p, [r EXCEPT !.pc = "calc_status_select"])
        /\ UNCHANGED <<clockVars, cacheVars, bmapVars, users_stats, statsObjs, stats,
                       scores_first, redis, envVars>>

\* calc_status classifying by a comparison of its own: best unless a best row
\* has more pp, while the UPDATE has demoted only the rows with less
StatusForNotBeaten(prev, pp) == IF \A i \in prev : scores[i].pp <= pp THEN 3 ELSE 2

\* calc_status: `if not prev: self.status = 3`, else 2; prev are the best rows
\* the UPDATE has left
StatusFor(prev, pp) == IF prev = {} THEN 3 ELSE 2

\* calc_status: `SELECT 1 FROM {table} WHERE ... LIMIT 1`, status 3 if no row is left
CalcStatusSelect(p) ==
    LET r == reqs[p]
        prev == BestRowIds(scores, ScoresTable(r.in.mode), r.in.user, objs[r.bmap].md5,
                           AsModeInt(r.in.mode))
    IN  /\ r.pc = "calc_status_select"
        /\ SetReq(p, HandlerAfterScore([r EXCEPT !.status = StatusFor(prev, r.pp)]))
        /\ UNCHANGED <<clockVars, cacheVars, bmapVars, scoreVars, envVars>>

\* `SELECT 1 FROM {table} WHERE checksum = %s`
DupCheck(p) ==
    LET r == reqs[p]
        dup == \E i \in 1..Len(scores) :
                    scores[i].table = ScoresTable(r.in.mode) /\ scores[i].checksum = r.in.checksum
    IN  /\ r.pc = "dup_check"
        /\ SetReq(p, IF dup THEN [r EXCEPT !.status = -1, !.pc = "done", !.out = "error: no"]
                     ELSE IF r.in.passed THEN [r EXCEPT !.pc = "prev_best"]
                     ELSE [r EXCEPT !.pc = "get_leaderboard"])
        /\ UNCHANGED <<clockVars, cacheVars, bmapVars, scoreVars, envVars>>

\* Score.from_id: the Score of a row
ScoreFromId(id) ==
    [id |-> id, user_id |-> scores[id].userid, score |-> scores[id].score, pp |-> scores[id].pp,
     rank |-> 0]

\* `SELECT id FROM {table} WHERE ... completed = 3 ... LIMIT 1` and Score.from_id
PrevBest(p) ==
    LET r == reqs[p]
        prev_db == FirstOf(BestRowIds(scores, ScoresTable(r.in.mode), r.in.user,
                                      objs[r.bmap].md5, AsModeInt(r.in.mode)))
    IN  /\ r.pc = "prev_best"
        /\ SetReq(p, [r EXCEPT !.pc = "get_leaderboard",
                               !.previous_score = IF prev_db = 0 THEN NoScore ELSE ScoreFromId(prev_db)])
        /\ UNCHANGED <<clockVars, cacheVars, bmapVars, scoreVars, envVars>>

\* Leaderboard.get_leaderboard(score.map, cur, "", score.mode), then
\* find_user_score and the previous score it overrides
GetLeaderboard(p) ==
    LET r == reqs[p]
        b == r.bmap
        lb == IF r.in.mode \in DOMAIN objs[b].lbs THEN objs[b].lbs[r.in.mode]
              ELSE LoadLeaderboard(scores, objs[b].md5, r.in.mode)
        rank == FindUserRank(lb, r.in.user)
    IN  /\ r.pc = "get_leaderboard"
        /\ objs' = [objs EXCEPT ![b].lbs = DictPut(@, r.in.mode, lb)]
        /\ SetReq(p, [r EXCEPT !.pc = "submit",
                               !.previous_score =
                                    IF rank = 0 THEN @
                                    ELSE [id |-> lb[rank].id, user_id |-> lb[rank].user_id,
                                          score |-> lb[rank].score, pp |-> lb[rank].pp,
                                          rank |-> rank]])
        /\ UNCHANGED <<clockVars, cacheVars, no_check_md5s, beatmaps, mirror, scoreVars, envVars>>

\* Score.submit: the INSERT and `self.id = cur.lastrowid`; then the row of
\* user_beatmaps, and for a passed play on to the replay store
Submit(p) ==
    LET r == reqs[p]
    IN  /\ r.pc = "submit"
        /\ scores' = Append(scores, ScoreRow(ScoresTable(r.in.mode), objs[r.bmap].md5, r.in.user,
                                             r.in.score, r.pp, AsModeInt(r.in.mode), r.status,
                                             r.in.checksum))
        /\ SetReq(p, [r EXCEPT !.pc = IF r.in.passed THEN "save_replay" ELSE "increment_counts",
                               !.id = Len(scores) + 1])
        /\ UNCHANGED <<clockVars, cacheVars, bmapVars, users_stats, statsObjs, stats,
                       scores_first, redis, envVars>>

\* `replay = await args.getlist("score")[1].read()`, an IndexError when the form
\* has no second part named score; restrict_user for an empty replay; then
\* `await session.post(f"http://localhost:3030/save?id={score.id}", data=replay)`
\* answered by the replay store
SaveReplay(p) ==
    LET r == reqs[p]
    IN  /\ r.pc = "save_replay"
        /\ IF r.in.replay = "absent"
           THEN /\ SetReq(p, Raised(r, "getlist"))
                /\ UNCHANGED <<redis, lookups>>
           ELSE IF r.in.replay = "empty"
           THEN /\ lookups' = RestrictedLookups(lookups, r.in.user)
                /\ redis' = RedisAfterRestrict(redis, r.in.user)
                /\ SetReq(p, [r EXCEPT !.pc = "increment_counts", !.nRestrict = @ + 1])
           ELSE /\ SetReq(p, [r EXCEPT !.pc = "increment_counts"])
                /\ UNCHANGED <<redis, lookups>>
        /\ UNCHANGED <<clockVars, cacheVars, bmapVars, scores, users_stats, statsObjs, stats,
                       scores_first, maxActive, inputs, lbTest, authVars, bus>>

\* LWBeatmap.increment_counts: the counters of the object; its UPDATE compares
\* the column beatmap_id with the md5 and matches no row
IncrementCounts(p) ==
    LET r == reqs[p]
    IN  /\ r.pc = "increment_counts"
        /\ objs' = [objs EXCEPT ![r.bmap].playcount = @ + 1, ![r.bmap].passcount = @ + 1]
        /\ SetReq(p, [r EXCEPT !.pc = "stats_get"])
        /\ UNCHANGED <<clockVars, cacheVars, no_check_md5s, beatmaps, mirror, scoreVars, envVars>>

\* `_recalc_pp: int = 0`, and what recalc assigns to it: the tuple that is the
\* last row of its SELECT
NoFloor == [kind |-> "int", v |-> 0]
FloorRow(pp) == [kind |-> "tuple", v |-> pp]

\* `not self._recalc_pp` is false for a tuple of one column, whatever it holds
Truthy(f) == f.kind = "tuple" \/ f.v # 0

\* the dataclass Stats
Stats(user_id, mode, row) ==
    [user_id |-> user_id, mode |-> mode, ranked_score |-> row.ranked_score,
     total_score |-> row.total_score, pp |-> row.pp, playcount |-> row.playcount,
     rank |-> 0, recalc_pp |-> NoFloor]

\* redis ZREVRANK: nil for a member that is not on the board, else the number
\* of members before it from the highest score down, members of one score in
\* descending order of the member
Nil == [kind |-> "nil", v |-> 0]
ZRevRank(board, member) ==
    IF member \notin DOMAIN board THEN Nil
    ELSE [kind |-> "int",
          v |-> Cardinality({x \in DOMAIN board :
                                \/ board[x] > board[member]
                                \/ board[x] = board[member] /\ x > member})]

\* Stats.get_rank: `self.rank = int(rank) + 1 if rank else 0`, where nil and
\* the position 0 are both false
GetRank(o, rd) ==
    LET rank == ZRevRank(rd[o.mode], o.user_id)
    IN  [o EXCEPT !.rank = IF rank.kind = "int" /\ rank.v # 0 THEN rank.v + 1 ELSE 0]

\* handle_submission from `old_stats = copy.copy(stats)` to the await of
\* stats.recalc or stats.save: the Stats object after the submission of r
StatsAfterScore(o, r, map) ==
    LET score_to_add == r.in.score - (IF r.previous_score.id # 0 THEN r.previous_score.score ELSE 0)
    IN  [o EXCEPT !.playcount = @ + 1,
                  !.total_score = @ + r.in.score,
                  !.ranked_score = IF r.in.passed /\ HasLeaderboard(map)
                                      /\ r.status = 3 /\ map.status = RANKED
                                   THEN @ + score_to_add ELSE @]

\* `if score.status == 3 and score.pp: await stats.recalc(cur)`
NeedsRecalc(r, map) == r.in.passed /\ HasLeaderboard(map) /\ r.status = 3 /\ r.pp # 0

\* the request holds the Stats object id and has updated it in memory
WithStats(p, r, id, os) ==
    /\ statsObjs' = [os EXCEPT ![id] = StatsAfterScore(os[id], r, objs[r.bmap])]
    /\ SetReq(p, [r EXCEPT !.stats = id, !.old_pp = os[id].pp,
                           !.pc = IF NeedsRecalc(r, objs[r.bmap]) THEN "recalc" ELSE "stats_save"])

\* StatsCache.get: the cached object, or on to cache_individual
StatsGet(p) ==
    LET r == reqs[p]
        key == <<r.in.user, r.in.mode>>
    IN  /\ r.pc = "stats_get"
        /\ IF key \in DOMAIN stats
           THEN WithStats(p, r, stats[key], statsObjs)
           ELSE /\ SetReq(p, [r EXCEPT !.pc = "stats_from_db"])
                /\ UNCHANGED statsObjs
        /\ UNCHANGED <<clockVars, cacheVars, bmapVars, scores, users_stats, stats,
                       scores_first, redis, envVars>>

\* StatsCache.cache_individual: `stats = await Stats.from_db(...)` is cached
\* under the key, and StatsCache.get returns what the cache holds
StatsFromDb(p) ==
    LET r == reqs[p]
        key == <<r.in.user, r.in.mode>>
        os == Append(statsObjs, GetRank(Stats(r.in.user, r.in.mode, users_stats[key]), redis))
    IN  /\ r.pc = "stats_from_db"
        /\ stats' = DictPut(stats, key, Len(os))
        /\ WithStats(p, r, Len(os), os)
        /\ UNCHANGED <<clockVars, cacheVars, bmapVars, scores, users_stats,
                       scores_first, redis, envVars>>

\* round(num / den) of Python 3: to the nearest integer, a half to the even one
PyRound(num, den) ==
    LET q == num \div den
        r == num % den
    IN  IF 2 * r > den THEN q + 1
        ELSE IF 2 * r = den THEN q + (q % 2)
        ELSE q

\* round(round(pp[0]) * 0.95 ** idx_pp), for a pp that is a whole number
Weighted(pp, idx) == IF pp = 0 THEN 0 ELSE PyRound(pp * 95^idx, 100^idx)

\* Stats.recalc: the rows its first SELECT finds, the user's completed = 3 rows
\* of the mode on beatmaps that are ranked or approved
RecalcRows(user_id, mode) ==
    {i \in 1..Len(scores) :
        /\ scores[i].table = ScoresTable(mode)
        /\ scores[i].completed = 3
        /\ scores[i].play_mode = AsModeInt(mode)
        /\ scores[i].userid = user_id
        /\ scores[i].beatmap_md5 \in DOMAIN beatmaps
        /\ beatmaps[scores[i].beatmap_md5].status \in {RANKED, APPROVED}}

\* `total_pp += ...` over the rows: w[lo] + ... + w[hi]
RECURSIVE SumRange(_, _, _)
SumRange(w, lo, hi) ==
    IF lo > hi THEN 0
    ELSE IF lo = hi THEN w[lo]
    ELSE LET mid == (lo + hi) \div 2
         IN  SumRange(w, lo, mid) + SumRange(w, mid + 1, hi)

\* Stats.recalc: the total of the weighted pp of these rows, highest first,
\* 125 at most
RecalcPp(user_id, mode) ==
    LET S == RecalcRows(user_id, mode)
        idx(i) == Cardinality({j \in S : \/ scores[j].pp > scores[i].pp
                                         \/ scores[j].pp = scores[i].pp /\ j < i})
        w == [n \in 1..Len(scores) |->
                IF n \in S /\ idx(n) < 125 THEN Weighted(scores[n].pp, idx(n)) ELSE 0]
    IN  SumRange(w, 1, Len(scores))

\* the pp of the last row of the SELECT of Stats.recalc when it returns the
\* 125 rows of its LIMIT
LastOfLimit(user_id, mode) ==
    LET S == RecalcRows(user_id, mode)
        idx(i) == Cardinality({j \in S : \/ scores[j].pp > scores[i].pp
                                         \/ scores[j].pp = scores[i].pp /\ j < i})
    IN  scores[CHOOSE i \in S : idx(i) = 124].pp

\* `if idx_pp == 124: self._recalc_pp = pp`
FloorAfter(f, user_id, mode) ==
    IF Cardinality(RecalcRows(user_id, mode)) >= 125
    THEN FloorRow(LastOfLimit(user_id, mode)) ELSE f

\* `await stats.recalc(cur)`: score_pp is None, and once _recalc_pp holds a row
\* `score_pp > self._recalc_pp` raises TypeError; without a row the loop never
\* binds idx_pp, and `if idx_pp == 124` raises UnboundLocalError
Recalc(p) ==
    LET r == reqs[p]
        o == statsObjs[r.stats]
    IN  /\ r.pc = "recalc"
        /\ IF Truthy(o.recalc_pp)
           THEN /\ SetReq(p, Raised(r, "recalc_floor"))
                /\ UNCHANGED statsObjs
           ELSE IF RecalcRows(r.in.user, r.in.mode) = {}
           THEN /\ SetReq(p, Raised(r, "recalc"))
                /\ UNCHANGED statsObjs
           ELSE /\ statsObjs' = [statsObjs EXCEPT
                        ![r.stats].pp = RecalcPp(r.in.user, r.in.mode),
                        ![r.stats].recalc_pp = FloorAfter(@, r.in.user, r.in.mode)]
                /\ SetReq(p, [r EXCEPT !.pc = "stats_save", !.recalc = "recomputed"])
        /\ UNCHANGED <<clockVars, cacheVars, bmapVars, scores, users_stats, stats,
                       scores_first, redis, envVars>>

\* the Score of the request as its Leaderboard holds it
OwnEntry(r) == LbEntry(r.id, r.in.user, r.in.score, r.pp)

\* the previous score of the request as a Leaderboard holds it
PrevEntry(r) ==
    LbEntry(r.previous_score.id, r.previous_score.user_id, r.previous_score.score,
            r.previous_score.pp)

\* handle_submission after stats.save making no call on the Leaderboard
LbAfterSubmitNoCall(lb, r) == lb

\* handle_submission after stats.save: the Leaderboard after the add_score and
\* remove_user calls for the status of the score
LbAfterSubmit(lb, r) ==
    IF r.status = 3 THEN AddScore(lb, OwnEntry(r), r.in.mode)
    ELSE IF r.status = 2
    THEN IF r.previous_score.id # 0
         THEN AddScore(AddScore(lb, OwnEntry(r), r.in.mode), PrevEntry(r), r.in.mode)
         ELSE RemoveUser(AddScore(lb, OwnEntry(r), r.in.mode), r.in.user)
    ELSE lb

\* `score.rank = leaderboard.find_score_rank(score.id)`, for status 3 and 2
RankAfterSubmit(lb, r) ==
    IF r.status \in {2, 3} THEN FindScoreRank(AddScore(lb, OwnEntry(r), r.in.mode), r.id)
    ELSE 0

\* `await stats.save(cur)`, the Leaderboard update and the first-place test
StatsSave(p) ==
    LET r == reqs[p]
        o == statsObjs[r.stats]
        lb == objs[r.bmap].lbs[r.in.mode]
        rank == RankAfterSubmit(lb, r)
    IN  /\ r.pc = "stats_save"
        /\ users_stats' = [users_stats EXCEPT ![<<o.user_id, o.mode>>] =
                StatsRow(o.ranked_score, o.total_score, o.pp, o.playcount)]
        /\ objs' = [objs EXCEPT ![r.bmap].lbs[r.in.mode] = LbAfterSubmit(lb, r)]
        /\ SetReq(p, [r EXCEPT !.rank = rank,
                               !.pc = IF /\ rank = 1
                                         /\ r.status = 3
                                         /\ IsPublic(r.in.user)
                                         /\ HasLeaderboard(objs[r.bmap])
                                      THEN "first_place_delete" ELSE "respond"])
        /\ UNCHANGED <<clockVars, cacheVars, no_check_md5s, beatmaps, mirror, scores,
                       statsObjs, stats, scores_first, redis, envVars>>

\* the rx column of scores_first
Rx(mode) == IF Relax(mode) THEN 1 ELSE IF mode = 7 THEN 2 ELSE 0

\* Score.first_place: `DELETE FROM scores_first WHERE ...`
FirstPlaceDelete(p) ==
    LET r == reqs[p]
    IN  /\ r.pc = "first_place_delete"
        /\ scores_first' = {row \in scores_first :
                ~(/\ row.beatmap_md5 = objs[r.bmap].md5
                  /\ row.mode = AsModeInt(r.in.mode)
                  /\ row.rx = Rx(r.in.mode))}
        /\ SetReq(p, [r EXCEPT !.pc = "first_place_insert"])
        /\ UNCHANGED <<clockVars, cacheVars, bmapVars, scores, users_stats, statsObjs, stats,
                       redis, envVars>>

\* Score.first_place: `INSERT INTO scores_first ...`, and on to the announcement
FirstPlaceInsert(p) ==
    LET r == reqs[p]
    IN  /\ r.pc = "first_place_insert"
        /\ scores_first' = scores_first \cup
                {[beatmap_md5 |-> objs[r.bmap].md5, mode |-> AsModeInt(r.in.mode),
                  rx |-> Rx(r.in.mode), scoreid |-> r.id, userid |-> r.in.user]}
        /\ SetReq(p, [r EXCEPT !.pc = "announce"])
        /\ UNCHANGED <<clockVars, cacheVars, bmapVars, scores, users_stats, statsObjs, stats,
                       redis, envVars>>

\* Score.first_place: `await sesh.get(".../api/v1/fokabotMessage?...", timeout=2)`
\* answered by the announcement service
Announce(p) ==
    LET r == reqs[p]
    IN  /\ r.pc = "announce"
        /\ SetReq(p, [r EXCEPT !.pc = "respond"])
        /\ UNCHANGED <<clockVars, cacheVars, bmapVars, scoreVars, envVars>>

\* `await stats.refresh_stats()`, Stats.update_rank if the pp changed, the response
Respond(p) ==
    LET r == reqs[p]
        o == statsObjs[r.stats]
    IN  /\ r.pc = "respond"
        /\ redis' = IF r.in.passed /\ r.old_pp # o.pp /\ IsPublic(r.in.user)
                    THEN [redis EXCEPT ![r.in.mode] = DictPut(@, r.in.user, o.pp)]
                    ELSE redis
        /\ SetReq(p, [r EXCEPT !.pc = "done", !.out = "ok"])
        /\ UNCHANGED <<clockVars, cacheVars, bmapVars, scores, users_stats, statsObjs, stats,
                       scores_first, envVars>>

\* one step of handle_submission for request p, outside try_bmap
SubmitStep(p) ==
    \/ CalcPp(p)
    \/ CalcStatusUpdate(p)
    \/ CalcStatusSelect(p)
    \/ DupCheck(p)
    \/ PrevBest(p)
    \/ GetLeaderboard(p)
    \/ Submit(p)
    \/ SaveReplay(p)
    \/ IncrementCounts(p)
    \/ StatsGet(p)
    \/ StatsFromDb(p)
    \/ Recalc(p)
    \/ StatsSave(p)
    \/ FirstPlaceDelete(p)
    \/ FirstPlaceInsert(p)
    \/ Announce(p)
    \/ Respond(p)

\* what the decrypted score data says
Input(user, md5, mode, score, pp, passed, quit, checksum, unranked) ==
    [user |-> user, md5 |-> md5, mode |-> mode, score |-> score, pp |-> pp,
     passed |-> passed, quit |-> quit, checksum |-> checksum, unranked |-> unranked,
     token |-> TRUE, replay |-> "ok"]

Checksums == {"c1", "c2"}

\* passed plays of the resolvable beatmap, where score and pp disagree on which
\* is the better one
PassedInputs ==
    {Input(7, "M", m, v[1], v[2], TRUE, FALSE, c, FALSE) :
        m \in Modes, v \in {<<1, 2>>, <<2, 1>>}, c \in Checksums}
    \cup {Input(8, "M", m, v[1], v[2], TRUE, FALSE, "c2", FALSE) :
        m \in Modes, v \in {<<1, 2>>, <<2, 1>>}}

\* a play of the unresolvable beatmap, a failed play, a quit play, a play with
\* unranked mods, and a rejected login
OtherInputs ==
    {Input(7, "X", VN_STANDARD, 1, 2, TRUE, FALSE, c, FALSE) : c \in Checksums}
    \cup {Input(7, "M", VN_STANDARD, 1, 2, FALSE, FALSE, "c2", FALSE),
          Input(7, "M", VN_STANDARD, 1, 2, FALSE, TRUE, "c2", FALSE),
          Input(7, "M", VN_STANDARD, 1, 2, TRUE, FALSE, "c2", TRUE),
          Input(0, "M", VN_STANDARD, 1, 2, TRUE, FALSE, "c2", FALSE)}

\* the service knows the beatmap "M" as ranked under the hash md5, and not "X"
MirrorOf(md5) == [h \in Hashes |-> IF h = "M" THEN ApiDict(md5, 1) ELSE NotFound]

\* nothing is cached and no score has been submitted
SubmitStoreInit ==
    /\ ClockCacheInit
    /\ objs = BlankObjs
    /\ no_check_md5s = <<>>
    /\ ScoresInit
    /\ lbTest = NoLeaderboard
    /\ reqs = [p \in Procs |-> IdleReq]
    /\ NoAuthInit
    /\ bus = NoBus
    /\ lookups = NoLookups

\* submissions are handled one after the other
\* the beatmap "M" is ranked in the store and known to the service, under its
\* hash or a newer one
SubmitInit ==
    /\ SubmitStoreInit
    /\ beatmaps \in {DictPut(<<>>, "M", row) : row \in {x \in BeatmapRows : x.status = RANKED}}
    /\ mirror \in {MirrorOf("M"), MirrorOf("N")}
    /\ maxActive = 1
    /\ inputs = PassedInputs \cup OtherInputs

SubmitNext ==
    \/ \E p \in Procs, in \in inputs : StartSubmit(p, in)
    \/ \E p \in Procs : TryBmapStep(p)
    \/ \E p \in Procs : SubmitStep(p)

SpecSubmit == SubmitInit /\ [][SubmitNext]_vars

\* an exception leaves handle_submission at an await that has changed nothing
Raise(p, what) ==
    /\ SetReq(p, Raised(reqs[p], what))
    /\ UNCHANGED <<clockVars, cacheVars, bmapVars, scoreVars, envVars>>

\* Score.submit: the store refuses the INSERT
SubmitFails(p) == reqs[p].pc = "submit" /\ Raise(p, "insert")

\* the replay store is down or does not answer within the 5 seconds
SaveReplayFails(p) == reqs[p].pc = "save_replay" /\ Raise(p, "replay")

\* Stats.save: the store refuses the UPDATE
StatsSaveFails(p) == reqs[p].pc = "stats_save" /\ Raise(p, "stats")

\* the announcement service is down or does not answer within the 2 seconds
AnnounceFails(p) == reqs[p].pc = "announce" /\ Raise(p, "announce")

\* submissions one after the other, where store writes and the calls to the
\* replay store and the announcement service may fail
SubmitFailNext ==
    \/ SubmitNext
    \/ \E p \in Procs : SubmitFails(p)
    \/ \E p \in Procs : SaveReplayFails(p)
    \/ \E p \in Procs : StatsSaveFails(p)
    \/ \E p \in Procs : AnnounceFails(p)

SpecSubmitFail == SubmitInit /\ [][SubmitFailNext]_vars

\* plays sent without the Token header, with an empty replay, without a replay
RestrictInputs ==
    {[Input(7, "M", m, 1, 2, TRUE, FALSE, "c1", FALSE) EXCEPT !.token = FALSE] : m \in Modes}
    \cup {[Input(7, "M", VN_STANDARD, 1, 2, FALSE, FALSE, "c1", FALSE) EXCEPT !.token = FALSE]}
    \cup {[Input(7, "M", VN_STANDARD, 1, 2, TRUE, FALSE, "c1", FALSE) EXCEPT !.replay = rp] :
                rp \in {"empty", "absent"}}

\* submissions one after the other, some of them lacking the Token header or the replay
SubmitRestrictInit ==
    /\ SubmitStoreInit
    /\ beatmaps \in {DictPut(<<>>, "M", row) : row \in {x \in BeatmapRows : x.status = RANKED}}
    /\ mirror \in {MirrorOf("M"), MirrorOf("N")}
    /\ maxActive = 1
    /\ inputs = PassedInputs \cup OtherInputs \cup RestrictInputs

SubmitRestrictNext ==
    \/ SubmitNext
    \/ \E p \in Procs : RestrictToken(p)

SpecSubmitRestrict == SubmitRestrictInit /\ [][SubmitRestrictNext]_vars

\* submissions overlap in time
\* the beatmap "M" is known to the service only, or frozen in the store and
\* known to the service under a newer hash
SubmitConcInit ==
    /\ SubmitStoreInit
    /\ \/ beatmaps = <<>> /\ mirror = MirrorOf("M")
       \/ /\ beatmaps \in {DictPut(<<>>, "M", row) :
                                row \in {x \in BeatmapRows : x.status = RANKED /\ x.frozen}}
          /\ mirror = MirrorOf("N")
    /\ maxActive = 2
    /\ inputs = {Input(7, "M", RX_STANDARD, 1, 2, TRUE, FALSE, "c1", FALSE),
                 Input(7, "M", RX_STANDARD, 2, 1, TRUE, FALSE, "c2", FALSE)}

SpecSubmitConc == SubmitConcInit /\ [][SubmitNext]_vars

\* the best plays of the users 7 and 8 on "M" in mode m, equal in score and pp
TiedRows(m) ==
    <<ScoreRow(ScoresTable(m), "M", 7, 2, 2, AsModeInt(m), 3, "c0"),
      ScoreRow(ScoresTable(m), "M", 8, 2, 2, AsModeInt(m), 3, "c3")>>

\* the server has been restarted after the two plays of TiedRows were accepted:
\* the store holds their rows, the statistics and the first-place marker of the
\* first, the ranking store holds both users, and the caches are empty
SubmitTieInit ==
    /\ ClockCacheInit
    /\ objs = BlankObjs
    /\ no_check_md5s = <<>>
    /\ \E m \in Modes :
        /\ scores = TiedRows(m)
        /\ users_stats = [k \in Users \X Modes |->
                IF k[2] = m THEN StatsRow(2, 2, 2, 1) ELSE StatsRow(0, 0, 0, 0)]
        /\ scores_first = {[beatmap_md5 |-> "M", mode |-> AsModeInt(m), rx |-> Rx(m),
                            scoreid |-> 1, userid |-> 7]}
        /\ redis = [k \in Modes |-> IF k = m THEN DictPut(DictPut(<<>>, 7, 2), 8, 2) ELSE <<>>]
    /\ statsObjs = <<>>
    /\ stats = <<>>
    /\ lbTest = NoLeaderboard
    /\ reqs = [p \in Procs |-> IdleReq]
    /\ NoAuthInit
    /\ bus = NoBus
    /\ lookups = NoLookups
    /\ beatmaps \in {DictPut(<<>>, "M", row) : row \in {x \in BeatmapRows : x.status = RANKED}}
    /\ mirror \in {MirrorOf("M"), MirrorOf("N")}
    /\ maxActive = 1
    /\ inputs = PassedInputs \cup OtherInputs

SpecSubmitTie == SubmitTieInit /\ [][SubmitNext]_vars

\* ------------------------------------------------------------ claims about submissions
\* request p has been answered and no request has arrived since
Last(p) == reqs[p].pc = "done" /\ \A q \in Procs : q > p => reqs[q].pc = "idle"

\* request p was a submission that ran to its normal response
Accepted(p) == reqs[p].pc = "done" /\ reqs[p].kind = "submit" /\ reqs[p].out = "ok"

\* the best row the store had for the user, beatmap and mode of p when p arrived
BestBefore(p) ==
    FirstOf(BestRowIds(reqs[p].pre.scores, ScoresTable(reqs[p].in.mode), reqs[p].in.user,
                       objs[reqs[p].bmap].md5, AsModeInt(reqs[p].in.mode)))

\* the Leaderboard of the beatmap and mode of p when p arrived
LbBefore(p) ==
    LET r == reqs[p]
    IN  IF r.bmap <= Len(r.pre.objs) /\ r.in.mode \in DOMAIN r.pre.objs[r.bmap].lbs
        THEN r.pre.objs[r.bmap].lbs[r.in.mode]
        ELSE LoadLeaderboard(r.pre.scores, objs[r.bmap].md5, r.in.mode)

\* the Leaderboard of the beatmap and mode of p now
LbNow(p) == objs[reqs[p].bmap].lbs[reqs[p].in.mode]

\* requests p and q were in progress at the same time
Overlap(p, q) == q \in reqs[p].with \/ p \in reqs[q].with

\* C1: of two overlapping submissions for the same user, beatmap and mode, at
\* most one is persisted as a row with completion status 3.
C1_OverlappingNotBothBest ==
    \A p, q \in Procs :
        (/\ p # q
         /\ Overlap(p, q)
         /\ reqs[p].id # 0
         /\ reqs[q].id # 0
         /\ reqs[p].in.user = reqs[q].in.user
         /\ reqs[p].in.mode = reqs[q].in.mode
         /\ scores[reqs[p].id].beatmap_md5 = scores[reqs[q].id].beatmap_md5)
        => ~(scores[reqs[p].id].completed = 3 /\ scores[reqs[q].id].completed = 3)

\* C2: a submission whose checksum is already in the score table of its mode
\* inserts no row, changes the completion status of no row, and changes no
\* Stats, cached or stored, and no Leaderboard.
C2_DuplicateChangesNothing ==
    \A p \in Procs :
        (Last(p) /\ reqs[p].kind = "submit" /\ reqs[p].pre.dup) =>
            /\ scores = reqs[p].pre.scores
            /\ users_stats = reqs[p].pre.users_stats
            /\ statsObjs = reqs[p].pre.statsObjs
            /\ \A b \in 1..Len(objs) :
                    objs[b].lbs = IF b <= Len(reqs[p].pre.objs) THEN reqs[p].pre.objs[b].lbs ELSE <<>>

C9_WorseScoreChangesNothing ==
    \A p \in Procs :
        (/\ Last(p)
         /\ Accepted(p)
         /\ reqs[p].in.passed
         /\ ~reqs[p].in.quit
         /\ BestBefore(p) # 0
         /\ Metric(reqs[p].in.mode, OwnEntry(reqs[p]))
                < Metric(reqs[p].in.mode, reqs[p].pre.scores[BestBefore(p)])) =>
            /\ reqs[p].status = 2
            /\ FindUserRank(LbNow(p), reqs[p].in.user) = FindUserRank(LbBefore(p), reqs[p].in.user)
            /\ FindUserRank(LbNow(p), reqs[p].in.user) # 0 =>
                    LbNow(p)[FindUserRank(LbNow(p), reqs[p].in.user)]
                        = LbBefore(p)[FindUserRank(LbBefore(p), reqs[p].in.user)]
            /\ users_stats[<<reqs[p].in.user, reqs[p].in.mode>>].ranked_score
                    = reqs[p].pre.users_stats[<<reqs[p].in.user, reqs[p].in.mode>>].ranked_score

\* C10: a submission whose beatmap hash cannot be resolved (it is missing from
\* the cache, the store and the service, or it is on the no-check list) is
\* answered "error: beatmap" and no score row is inserted for it.
C10_UnresolvableNeverPersisted ==
    \A p \in Procs :
        (reqs[p].kind = "submit" /\ reqs[p].in.user # 0 /\ reqs[p].pre.unresolvable) =>
            /\ reqs[p].id = 0
            /\ reqs[p].pc = "done" => reqs[p].out = "error: beatmap"

\* the Leaderboards attached to the beatmap objects are what they were when
\* request p arrived
LbsAsBefore(p) ==
    \A b \in 1..Len(objs) :
        objs[b].lbs = IF b <= Len(reqs[p].pre.objs) THEN reqs[p].pre.objs[b].lbs ELSE <<>>

\* request p was rejected because check_user did not accept the login
AuthFailure(p) == reqs[p].kind = "submit" /\ reqs[p].pc = "done" /\ reqs[p].in.user = 0

\* request p was rejected because of its mods
DisallowedMods(p) ==
    /\ reqs[p].kind = "submit"
    /\ reqs[p].pc = "done"
    /\ reqs[p].in.unranked
    /\ reqs[p].out = "error: no"

\* C11: a submission rejected for its login or for its mods inserts no score
\* row and leaves the completion status of every score row, the Stats (stored
\* and cached) and the Leaderboards as they were.
C11_RejectedChangesNothing ==
    \A p \in Procs :
        (Last(p) /\ (AuthFailure(p) \/ DisallowedMods(p))) =>
            /\ Len(scores) = Len(reqs[p].pre.scores)
            /\ \A i \in 1..Len(scores) : scores[i].completed = reqs[p].pre.scores[i].completed
            /\ users_stats = reqs[p].pre.users_stats
            /\ statsObjs = reqs[p].pre.statsObjs
            /\ LbsAsBefore(p)

\* every cached Stats object is what it was when request p arrived, or, if it
\* was loaded since, what the store held for it then
CachedStatsAsBefore(p) ==
    \A key \in DOMAIN stats :
        statsObjs[stats[key]] =
            IF stats[key] <= Len(reqs[p].pre.statsObjs) THEN reqs[p].pre.statsObjs[stats[key]]
            ELSE [Stats(key[1], key[2], reqs[p].pre.users_stats[key])
                    EXCEPT !.rank = statsObjs[stats[key]].rank]

\* the play and pass counters of every beatmap object are what they were when
\* request p arrived, or, for an object made since, what the store holds
CountersAsBefore(p) ==
    \A b \in 1..Len(objs) :
        LET was == IF b <= Len(reqs[p].pre.objs) THEN reqs[p].pre.objs[b]
                   ELSE IF objs[b].md5 \in DOMAIN beatmaps THEN beatmaps[objs[b].md5]
                   ELSE BmapFromOapiv1Dict(ApiDict(objs[b].md5, 0))
        IN  objs[b].playcount = was.playcount /\ objs[b].passcount = was.passcount

\* C12: a submission whose score-row INSERT or whose Stats UPDATE fails is
\* aborted with the cached Stats, the cached beatmap counters and the
\* Leaderboard of its beatmap and mode as they were before the request.
C12_FailedWriteLeavesCaches ==
    \A p \in Procs :
        (Last(p) /\ reqs[p].failed \in {"insert", "stats"}) =>
            /\ reqs[p].out = "exception"
            /\ CachedStatsAsBefore(p)
            /\ CountersAsBefore(p)
            /\ LbNow(p) = LbBefore(p)

\* C13: a submission during which the call to the replay store or the
\* first-place announcement fails or times out still gets the normal response,
\* its Stats are persisted and its score is put on the Leaderboard.
C13_UpstreamFailureNotFatal ==
    \A p \in Procs :
        (Last(p) /\ reqs[p].failed \in {"replay", "announce"}) =>
            /\ reqs[p].out = "ok"
            /\ reqs[p].stats # None
            /\ [Stats(reqs[p].in.user, reqs[p].in.mode,
                      users_stats[<<reqs[p].in.user, reqs[p].in.mode>>])
                    EXCEPT !.rank = statsObjs[reqs[p].stats].rank] = statsObjs[reqs[p].stats]
            /\ reqs[p].status = 3 => FindScoreRank(LbNow(p), reqs[p].id) # 0

\* what the claim has calc_status assign to request p: by the ranking metric of
\* the mode, against the best row the user had for the beatmap and mode
ExpectedStatus(p) ==
    LET r == reqs[p]
    IN  IF r.in.quit THEN 0
        ELSE IF ~r.in.passed THEN 1
        ELSE IF BestBefore(p) = 0 THEN 3
        ELSE IF Metric(r.in.mode, OwnEntry(r)) > Metric(r.in.mode, r.pre.scores[BestBefore(p)])
             THEN 3
        ELSE 2

\* C17: calc_status assigns 0 to a quit play, 1 to a play that was not passed,
\* and to a passed play 3 if the user has no best row for the beatmap and mode
\* or the play exceeds that row in the ranking metric of the mode (pp in the
\* relax modes, raw score in the vanilla modes), and 2 otherwise.
C17_StatusByRankingMetric ==
    \A p \in Procs :
        (reqs[p].kind = "submit" /\ reqs[p].status \in 0..3) => reqs[p].status = ExpectedStatus(p)

\* row j was inserted with completion status 3
InsertedBest(j) == \E q \in Procs : reqs[q].id = j /\ reqs[q].status = 3

\* rows i and j are of the same user, beatmap and mode
SameKey(i, j) ==
    /\ scores[i].table = scores[j].table
    /\ scores[i].userid = scores[j].userid
    /\ scores[i].beatmap_md5 = scores[j].beatmap_md5
    /\ scores[i].play_mode = scores[j].play_mode

\* a step changes a row that exists only in its completion status, from 3 to 2
RowsOnlyDemoted ==
    /\ Len(scores') >= Len(scores)
    /\ \A i \in 1..Len(scores) :
            scores'[i] # scores[i] =>
                /\ scores[i].completed = 3
                /\ scores'[i] = [scores[i] EXCEPT !.completed = 2]

\* once the requests have been answered, every row that was demoted has a later
\* row of the same user, beatmap and mode that was inserted with status 3
DemotedOnlyByBest ==
    NActive = 0 =>
        \A i \in 1..Len(scores) :
            (InsertedBest(i) /\ scores[i].completed = 2) =>
                \E j \in (i + 1)..Len(scores) : SameKey(i, j) /\ InsertedBest(j)

\* C18: a persisted score row changes only in its completion status and only
\* from 3 to 2, and only through a later submission of the same user, beatmap
\* and mode that is itself persisted with status 3.
C18_OnlyDemotionByNewBest == [][RowsOnlyDemoted]_vars /\ []DemotedOnlyByBest

\* C19: with the submissions handled one after the other, the store never holds
\* two rows with completion status 3 for one user, beatmap and mode.
C19_AtMostOneBest ==
    \A i, j \in 1..Len(scores) :
        (i # j /\ SameKey(i, j)) => ~(scores[i].completed = 3 /\ scores[j].completed = 3)

\* the user's best row was demoted by a better play, which is the one best row now
C19_Witness ==
    /\ NActive = 0
    /\ Len(scores) = 2
    /\ SameKey(1, 2)
    /\ scores[1].completed = 2
    /\ scores[2].completed = 3
    /\ InsertedBest(1)

\* C20: on a cache miss try_bmap queries the store first and calls the external
\* service only if the store has no row; the record found is written into the
\* cache, and it is written to the store only when it came from the service.
C20_StoreWriteOnlyFromService ==
    \A p \in Procs :
        LET r == reqs[p]
        IN  /\ (r.pc = "akat_first" \/ r.nApi > r.nRecheck) => (r.nDb >= 1 /\ ~r.dbRow)
            /\ (r.dbRow /\ r.pc # "save_first") => r.cachedFirst
            /\ r.savedFirst => (r.cachedFirst /\ ~r.dbRow)

\* the staleness window of a record of the given age: two hours and 5/365 of an
\* hour for every whole day of age; the age exceeds it
AgeExceedsWindow(age) == 365 * age > 365 * 2 * HourTicks + 5 * (age \div DayTicks) * HourTicks

\* C21: for a record that is not frozen, a resolution makes the staleness
\* re-check call to the external service if and only if the age of the record
\* exceeds the staleness window.
C21_RecheckIffStale ==
    \A p \in Procs :
        (reqs[p].seen.made /\ ~reqs[p].seen.frozen) =>
            ((reqs[p].nRecheck > 0 \/ reqs[p].pc = "akat_update") <=> AgeExceedsWindow(reqs[p].seen.age))

\* request p has returned from a staleness check that found another content hash
Replaced(p) == reqs[p].pc = "done" /\ reqs[p].recheck = "replaced"

\* the resolution returned the remote record, which is in the store and the cache
RemoteTakesOver ==
    \A p \in Procs :
        (Replaced(p) /\ \A q \in Procs : q > p => reqs[q].pc = "idle") =>
            LET b == reqs[p].bmap
            IN  /\ b # reqs[p].superseded
                /\ objs[b].md5 # objs[reqs[p].superseded].md5
                /\ objs[b].md5 \in DOMAIN beatmaps
                /\ beatmaps[objs[b].md5] = RowOfBmap(objs[b])
                /\ CacheGet(beatmap, objs[b].md5) = b

\* no later resolution returns the object that was replaced
SupersededNotServed ==
    \A p, q \in Procs :
        (Replaced(p) /\ q > p /\ reqs[q].pc = "done") => reqs[q].bmap # reqs[p].superseded

\* a staleness check that finds the same content hash changes the timestamp of
\* the object in memory and nothing else
SameHashOnlyStamps ==
    \A p \in Procs :
        (reqs[p].pc = "akat_update" /\ reqs'[p].recheck = "same") =>
            /\ UNCHANGED <<beatmap, beatmaps, no_check_md5s>>
            /\ Len(objs') = Len(objs)
            /\ \A i \in 1..Len(objs) :
                    objs'[i] = [objs[i] EXCEPT !.last_update_ts = objs'[i].last_update_ts]
            /\ \A i \in 1..Len(objs) : i # reqs[p].bmap => objs'[i] = objs[i]

\* C22: when a staleness re-check returns a record with another content hash, the
\* resolution returns the remote record, the remote record is persisted and
\* cached, and later resolutions no longer serve the superseded record; when
\* the hashes match, nothing but the checked-at timestamp changes.
C22_ReplacedWholesale ==
    [](RemoteTakesOver /\ SupersededNotServed) /\ [][SameHashOnlyStamps]_vars

\* the source that supplied what try_bmap returned for request r, as a
\* FetchResult: 0 nothing or a placeholder, 1 the cache, 2 the store, 3 the service
SourceOf(r) ==
    IF r.recheck = "replaced" THEN 3
    ELSE IF r.bmap \in {None, UPDATE_BMAP, NOT_SUB_BMAP} THEN 0
    ELSE IF r.dbRow THEN 2
    ELSE IF r.savedFirst THEN 3
    ELSE 1

\* C23: every resolution returns a provenance tag that is one of none, cache,
\* store or external, and the tag names the source that supplied the record
\* it returns.
C23_TagNamesSource ==
    \A p \in Procs :
        (reqs[p].pc = "done" /\ reqs[p].kind = "resolve") =>
            /\ reqs[p].out # "exception"
            /\ reqs[p].res \in 0..3
            /\ reqs[p].res = SourceOf(reqs[p])

\* a lookup that the service answered with an error ends as one that the service
\* answered with "no such beatmap": nothing is returned and nothing is raised
FirstErrorIsMiss ==
    \A p \in Procs :
        (reqs[p].firstAnswer = "error" /\ reqs[p].pc = "done") =>
            /\ reqs[p].out # "exception"
            /\ reqs[p].missedAll
            /\ reqs[p].bmap = None
            /\ reqs[p].res = 0
            /\ ~reqs[p].savedFirst

\* a staleness check that the service answered with an error returns the record
\* it was made for and changes neither the cache, the objects in it nor the store
RecheckErrorKeeps ==
    \A p \in Procs :
        (reqs[p].pc = "akat_update" /\ reqs'[p].recheck = "error") =>
            /\ UNCHANGED <<beatmap, beatmaps, objs, no_check_md5s>>
            /\ reqs'[p].pc = "done"
            /\ reqs'[p].out # "exception"
            /\ reqs'[p].bmap = reqs[p].bmap

\* C24: an error raised by the external service is never propagated out of
\* try_bmap: in the lookup it is treated as a miss at that source, and in a
\* staleness re-check it leaves the cached and the stored record unchanged.
C24_ServiceErrorsContained == []FirstErrorIsMiss /\ [][RecheckErrorKeeps]_vars

\* one resolution kept its record through a failed re-check, the next found
\* nothing because the lookup at the service failed
C24_Witness ==
    /\ reqs[1].pc = "done"
    /\ reqs[1].recheck = "error"
    /\ reqs[1].bmap # None
    /\ reqs[2].pc = "done"
    /\ reqs[2].firstAnswer = "error"

\* a resolution of hash h has saved a record under h to the store
ResolutionStored(h) ==
    h \in DOMAIN beatmaps /\ \E p \in Procs : reqs[p].md5 = h /\ reqs[p].savedFirst

\* C25: a content hash is in the absent memo only if no resolution of it has
\* succeeded: no hash is at once in the memo and held as a record that a
\* resolution wrote to the beatmap cache or to the store.
C25_MemoOnlyForUnresolved ==
    \A h \in DOMAIN no_check_md5s :
        no_check_md5s[h] # 0 => (CacheGet(beatmap, h) = None /\ ~ResolutionStored(h))

\* ------------------------------------------------------------ the lookup caches
\* preload_all of the caches that have one: an entry for every row
Preloaded(rows) ==
    [k \in Kinds |->
        IF k \in {"priv", "country", "clan", "whitelist"}
        THEN [u \in rows[TableOf(k)] |-> "value"]
        ELSE <<>>]

\* cache_individual up to the await of its SELECT: the entry is deleted first
CacheIndividualEnter(kind, user_id) ==
    /\ lookups.call.pc \in {"idle", "done"}
    /\ lookups.n < MaxReloads
    /\ lookups' = [lookups EXCEPT !.cache[kind] = DictDel(@, user_id),
                                  !.call = [IdleReload EXCEPT !.pc = "select", !.kind = kind,
                                                              !.user_id = user_id],
                                  !.n = @ + 1]
    /\ UNCHANGED <<clockVars, cacheVars, bmapVars, scoreVars, reqs, maxActive, inputs, lbTest,
                   authVars, bus>>

\* what cache_individual of the kind does with the answer of its SELECT: the
\* value it caches ("": no entry is written) and how it ends
AfterSelect(kind, hasRow) ==
    CASE kind \in {"priv", "country"} ->
            IF hasRow THEN [entry |-> "value", out |-> "ok"] ELSE [entry |-> "", out |-> "WTFError"]
      [] kind = "clan" ->
            IF hasRow THEN [entry |-> "value", out |-> "ok"] ELSE [entry |-> "", out |-> "ok"]
      [] kind = "friends" ->
            [entry |-> IF hasRow THEN "rows" ELSE "[user_id]", out |-> "ok"]
      [] kind = "whitelist" ->
            [entry |-> IF hasRow THEN "row" ELSE "None", out |-> "ok"]
      [] kind = "stats" ->
            [entry |-> IF hasRow THEN "Stats" ELSE "None", out |-> "ok"]

\* cache_individual from the answer of the SELECT to its end
CacheIndividualSelect ==
    LET c == lookups.call
        hasRow == c.user_id \in lookups.rows[TableOf(c.kind)]
        a == AfterSelect(c.kind, hasRow)
    IN  /\ c.pc = "select"
        /\ lookups' = [lookups EXCEPT
                !.cache[c.kind] = IF a.entry = "" THEN @ ELSE DictPut(@, c.user_id, a.entry),
                !.call = [c EXCEPT !.pc = "done", !.hadRow = hasRow, !.out = a.out]]
        /\ UNCHANGED <<clockVars, cacheVars, bmapVars, scoreVars, reqs, maxActive, inputs, lbTest,
                       authVars, bus>>

\* the rows of a user come and go in the store
RowChange(table, user_id) ==
    /\ lookups.nRows < MaxRowChanges
    /\ lookups' = [lookups EXCEPT !.rows[table] =
                        IF user_id \in @ THEN @ \ {user_id} ELSE @ \cup {user_id},
                                  !.nRows = @ + 1]
    /\ UNCHANGED <<clockVars, cacheVars, bmapVars, scoreVars, reqs, maxActive, inputs, lbTest,
                   authVars, bus>>

\* init_caches has run; the users that have rows have them in every table
LookupInit ==
    /\ ClockCacheInit
    /\ ScoresInit
    /\ objs = BlankObjs
    /\ no_check_md5s = <<>>
    /\ beatmaps = <<>>
    /\ mirror = [h \in Hashes |-> NotFound]
    /\ reqs = [p \in Procs |-> IdleReq]
    /\ maxActive = 0
    /\ inputs = {}
    /\ lbTest = NoLeaderboard
    /\ NoAuthInit
    /\ bus = NoBus
    /\ \E R \in SUBSET Users :
            lookups = [NoLookups EXCEPT !.rows = [t \in Tables |-> R],
                                        !.cache = Preloaded([t \in Tables |-> R])]

LookupNext ==
    \/ \E k \in Kinds, u \in Users : CacheIndividualEnter(k, u)
    \/ CacheIndividualSelect
    \/ \E t \in Tables, u \in Users : RowChange(t, u)

SpecLookup == LookupInit /\ [][LookupNext]_vars

\* C26: for each lookup cache (privilege, country, clan tag, whitelist, friends
\* list, stats), a reload of a key that has no backing row fails with a
\* not-found error and leaves no entry, no empty or placeholder value either,
\* cached for the key.
C26_ReloadWithoutRowFails ==
    (lookups.call.pc = "done" /\ ~lookups.call.hadRow) =>
        /\ lookups.call.out = "WTFError"
        /\ lookups.call.user_id \notin DOMAIN lookups.cache[lookups.call.kind]

\* PrivilegeCache.cache_individual has started for the user, who has a row in
\* table users and had an entry in cache.priv, and is at the await of its SELECT
ReloadStarts(user_id) ==
    /\ lookups.call.pc # "select"
    /\ lookups'.call.pc = "select"
    /\ lookups'.call.kind = "priv"
    /\ lookups'.call.user_id = user_id
    /\ user_id \in lookups.rows["users"]
    /\ user_id \in DOMAIN lookups.cache["priv"]

\* C39: while cache_individual is reloading a key that has a backing row in
\* the store, the privilege cache still holds a value for the key (the previous
\* one or the new one), so a get during the reload never returns empty.
C39_ReloadNeverEmpty ==
    [][\A u \in Users : ReloadStarts(u) => u \in DOMAIN lookups'.cache["priv"]]_vars

\* request p is at Stats.from_db, which loads the Stats of its user and mode
LoadsStats(p) ==
    /\ reqs[p].pc = "stats_from_db"
    /\ Len(statsObjs') = Len(statsObjs) + 1

\* the rank the user of request p has on the board of its mode: 1 + the
\* zero-based position, 0 for a user that is not on the board
RankOnBoard(p) ==
    LET rank == ZRevRank(redis[reqs[p].in.mode], reqs[p].in.user)
    IN  IF rank.kind = "nil" THEN 0 ELSE rank.v + 1

\* C40: Stats.get_rank sets rank to 1 + the member's zero-based position in
\* the ranking store for every member that is present, the member in first
\* position included, and to 0 only for a member that is absent.
C40_RankIsPositionPlusOne ==
    [][\A p \in Procs :
        LoadsStats(p) => statsObjs'[Len(statsObjs')].rank = RankOnBoard(p)]_vars

\* the sum of the raw scores of the user's best rows of the mode on beatmaps
\* that are ranked in the store
BestScoreSum(user_id, mode) ==
    LET f[n \in 0..Len(scores)] ==
            IF n = 0 THEN 0
            ELSE f[n - 1] +
                 (IF /\ scores[n].table = ScoresTable(mode)
                     /\ scores[n].play_mode = AsModeInt(mode)
                     /\ scores[n].userid = user_id
                     /\ scores[n].completed = 3
                     /\ scores[n].beatmap_md5 \in DOMAIN beatmaps
                     /\ beatmaps[scores[n].beatmap_md5].status = RANKED
                  THEN scores[n].score ELSE 0)
    IN  f[Len(scores)]

\* with no request in progress, the stored ranked score is the sum over the best rows
RankedScoreIsSum ==
    NActive = 0 =>
        \A u \in Users, m \in Modes : users_stats[<<u, m>>].ranked_score = BestScoreSum(u, m)

\* what the claim has submission p add to the ranked score of its user and mode
RankedDelta(p) ==
    IF Accepted(p) /\ reqs[p].status = 3 /\ objs[reqs[p].bmap].status = RANKED
    THEN reqs[p].in.score
         - (IF BestBefore(p) = 0 THEN 0 ELSE reqs[p].pre.scores[BestBefore(p)].score)
    ELSE 0

\* the last request answered changed the ranked score of its user and mode by
\* that much, and no other ranked score
RankedScoreStep ==
    \A p \in Procs :
        (Last(p) /\ reqs[p].kind = "submit") =>
            \A u \in Users, m \in Modes :
                users_stats[<<u, m>>].ranked_score
                    = reqs[p].pre.users_stats[<<u, m>>].ranked_score
                      + (IF u = reqs[p].in.user /\ m = reqs[p].in.mode THEN RankedDelta(p) ELSE 0)

\* C27: after submissions handled one after the other, a user's ranked score
\* for a mode is the sum, over the ranked beatmaps, of the raw score of the
\* user's current best row: a status-3 submission adds its raw score less that
\* of the best row it replaces, every other submission adds nothing.
C27_RankedScoreIsSumOfBests == RankedScoreIsSum /\ RankedScoreStep

\* markers a and b are of the same beatmap, mode and category
SameBoard(a, b) == a.beatmap_md5 = b.beatmap_md5 /\ a.mode = b.mode /\ a.rx = b.rx

\* marker a names the row of a status-3 submission that ranked 1 on a beatmap
\* with a leaderboard
WrittenByTop(a) ==
    \E p \in Procs :
        /\ reqs[p].kind = "submit"
        /\ reqs[p].id = a.scoreid
        /\ reqs[p].in.user = a.userid
        /\ reqs[p].status = 3
        /\ reqs[p].rank = 1
        /\ HasLeaderboard(objs[reqs[p].bmap])
        /\ objs[reqs[p].bmap].md5 = a.beatmap_md5

ValidButFlagged(p) ==
    /\ reqs[p].kind = "submit"
    /\ reqs[p].in.user # 0
    /\ ~reqs[p].in.unranked
    /\ ~reqs[p].pre.dup
    /\ ~reqs[p].pre.unresolvable
    /\ ~reqs[p].in.token \/ (reqs[p].in.passed /\ reqs[p].in.replay # "ok")

\* C29: a submission without the Token header or without a valid replay that is
\* valid otherwise runs to completion: the account is restricted, exactly one
\* score row is persisted and a response is returned.
C29_FlaggedRunsToCompletion ==
    \A p \in Procs :
        (Last(p) /\ ValidButFlagged(p)) =>
            /\ reqs[p].out = "ok"
            /\ reqs[p].nRestrict >= 1
            /\ ~IsPublic(reqs[p].in.user)
            /\ Len(scores) = Len(reqs[p].pre.scores) + 1

\* the submissions of user and mode k that have reached the update of the
\* Stats object, `stats.playcount += 1`
ReachedStats(k) ==
    {p \in Procs : /\ reqs[p].kind = "submit"
                   /\ reqs[p].stats # None
                   /\ <<reqs[p].in.user, reqs[p].in.mode>> = k}

\* C34: however submissions of one user in one mode interleave, two that both
\* miss the Stats cache included, the playcount in the store has grown by the
\* number of submissions that reached the Stats update, once all of them have
\* finished without an exception.
C34_PlaycountCountsSubmissions ==
    (NActive = 0 /\ \A p \in Procs : reqs[p].failed = "") =>
        \A k \in Users \X Modes :
            users_stats[k].playcount = Cardinality(ReachedStats(k))

\* restrict_user completes for the user of request p in this step
Restricts(p) == reqs'[p].nRestrict > reqs[p].nRestrict

\* C37: after restrict_user(u) has completed, u is a member of none of the
\* boards of the ranking store that Stats.update_rank writes to, whatever the
\* mode and for the relax boards too.
C37_RestrictedLeavesAllBoards ==
    [][\A p \in Procs :
        Restricts(p) => \A m \in Modes : reqs[p].in.user \notin DOMAIN redis'[m]]_vars

\* every request so far was a submission that was answered, none is in progress
AllSucceeded ==
    /\ reqs[1].pc = "done"
    /\ \A p \in Procs : reqs[p].pc # "idle" => Accepted(p)

\* the Leaderboards of the beatmap objects in the beatmap cache are what a load
\* from the score tables returns
CachedLbsAsLoaded ==
    \A b \in 1..Len(objs) :
        (HasKey(beatmap, objs[b].md5) /\ CacheGet(beatmap, objs[b].md5) = b) =>
            \A m \in DOMAIN objs[b].lbs :
                objs[b].lbs[m] = LoadLeaderboard(scores, objs[b].md5, m)

SmallCases ==
    {[st |-> st, stOthers |-> so, others |-> o, pp |-> pp, old |-> old,
      fill |-> 0, second |-> FALSE] :
        st \in {RANKED, LOVED}, so \in {RANKED, LOVED},
        o \in {<<>>} \cup {<<x>> : x \in {300, 400}} \cup {<<x, y>> : x, y \in {300, 400}},
        pp \in {500, 30}, old \in {0, 5}}

\* the same with a second play of the user, of 400 pp on the beatmap "A", whose
\* handler is at `await stats.recalc(cur)` too, and with fill more best plays of
\* 0 pp on ranked beatmaps of their own: 124, 125 or 126 rows that count
LongCases ==
    {[st |-> RANKED, stOthers |-> RANKED, others |-> <<>>, pp |-> pp, old |-> 5,
      fill |-> n, second |-> TRUE] :
        pp \in {500, 30}, n \in {122, 123, 124}}

RecalcCases == SmallCases \cup LongCases

\* the beatmap of the k-th of the fill plays
FillMd5(k) == ToString(k)

\* the score rows of a case: the other best plays, then the new one, then the
\* second one, then the fill plays
RecalcScores(c) ==
    [k \in 1..Len(c.others) |->
        ScoreRow("scores", IF k = 1 THEN "A" ELSE "B", 7, c.others[k], c.others[k], 0, 3,
                 IF k = 1 THEN "oA" ELSE "oB")]
    \o <<ScoreRow("scores", "M", 7, c.pp, c.pp, 0, 3, "c1")>>
    \o (IF c.second THEN <<ScoreRow("scores", "A", 7, 400, 400, 0, 3, "c2")>> ELSE <<>>)
    \o [k \in 1..c.fill |-> ScoreRow("scores", FillMd5(k), 7, 0, 0, 0, 3, FillMd5(k))]

\* the request of a case, after the INSERT and cache.stats.get
RecalcReq(c) ==
    [IdleReq EXCEPT !.pc = "recalc", !.kind = "submit", !.md5 = "M",
                    !.in = Input(7, "M", VN_STANDARD, c.pp, c.pp, TRUE, FALSE, "c1", FALSE),
                    !.res = 1, !.bmap = 3, !.status = 3, !.pp = c.pp,
                    !.id = Len(c.others) + 1, !.stats = 1, !.old_pp = c.old]

\* the request of the second play of a case, after the INSERT and cache.stats.get
SecondReq(c) ==
    [IdleReq EXCEPT !.pc = "recalc", !.kind = "submit", !.md5 = "A",
                    !.in = Input(7, "A", VN_STANDARD, 400, 400, TRUE, FALSE, "c2", FALSE),
                    !.res = 1, !.bmap = 4, !.status = 3, !.pp = 400,
                    !.id = Len(c.others) + 2, !.stats = 1, !.old_pp = c.old]

\* the beatmap object of a case, with its counters incremented and the
\* Leaderboard of the mode loaded
RecalcBmap(c) ==
    [LWBeatmap("M", c.st, 0, FALSE, 1, 1) EXCEPT !.lbs = DictPut(<<>>, VN_STANDARD, <<>>)]

\* the beatmap object of the second play
SecondBmap(c) ==
    [LWBeatmap("A", c.stOthers, 0, FALSE, 1, 1) EXCEPT !.lbs = DictPut(<<>>, VN_STANDARD, <<>>)]

\* the Stats object of a case: the row of users_stats, changed in memory by the
\* handlers that are at recalc
RecalcStats(c) ==
    LET first == StatsAfterScore(Stats(7, VN_STANDARD, StatsRow(0, 0, c.old, Len(c.others) + c.fill)),
                                 RecalcReq(c), RecalcBmap(c))
    IN  IF c.second THEN StatsAfterScore(first, SecondReq(c), SecondBmap(c)) ELSE first

RecalcInit ==
    \E c \in RecalcCases :
        /\ now = 0
        /\ nAdvances = 0
        /\ putLog = <<>>
        /\ removed = FALSE
        /\ beatmap = IF c.second THEN CachePut(CachePut(<<>>, "M", 3, 0), "A", 4, 0)
                     ELSE CachePut(<<>>, "M", 3, 0)
        /\ objs = Append(BlankObjs, RecalcBmap(c))
                    \o (IF c.second THEN <<SecondBmap(c)>> ELSE <<>>)
        /\ no_check_md5s = <<>>
        /\ beatmaps = [h \in {"M", "A", "B"} \cup {FillMd5(k) : k \in 1..c.fill} |->
                RowOfBmap(LWBeatmap(h, IF h = "M" THEN c.st ELSE c.stOthers, 0, FALSE, 0, 0))]
        /\ mirror = [h \in Hashes |-> NotFound]
        /\ scores = RecalcScores(c)
        /\ users_stats = [k \in Users \X Modes |->
                IF k = <<7, VN_STANDARD>> THEN StatsRow(0, 0, c.old, Len(c.others) + c.fill)
                ELSE StatsRow(0, 0, 0, 0)]
        /\ statsObjs = <<RecalcStats(c)>>
        /\ stats = DictPut(<<>>, <<7, VN_STANDARD>>, 1)
        /\ scores_first = {}
        /\ redis = [m \in Modes |-> <<>>]
        /\ reqs = [p \in Procs |-> IF p = 1 THEN RecalcReq(c)
                                   ELSE IF p = 2 /\ c.second THEN SecondReq(c)
                                   ELSE IdleReq]
        /\ maxActive = IF c.second THEN 2 ELSE 1
        /\ inputs = {}
        /\ lbTest = NoLeaderboard
        /\ NoAuthInit
        /\ bus = NoBus
        /\ lookups = NoLookups

RecalcNext == \E p \in Procs : Recalc(p)

SpecRecalc == RecalcInit /\ [][RecalcNext]_vars

\* the pp values of the rows that count for the user and mode of request p
EligiblePps(p) == {scores[i].pp : i \in RecalcRows(reqs[p].in.user, reqs[p].in.mode)}

\* C16: Stats.recalc sets the pp of the Stats object to the sum, over the
\* user's best values for the mode on ranked or approved beatmaps, highest
\* first and 125 at most, of round(round(value) * 0.95^i) for i = 0, 1, ...;
\* for the values 500, 400 and 300 that is 1151.
C16_RecalcWeightedSum ==
    \A p \in Procs :
        (reqs[p].kind = "submit" /\ reqs[p].pc \notin {"idle", "recalc"}) =>
            /\ reqs[p].failed = ""
            /\ statsObjs[reqs[p].stats].pp = RecalcPp(reqs[p].in.user, reqs[p].in.mode)
            /\ (/\ EligiblePps(p) = {500, 400, 300}
                /\ Cardinality(RecalcRows(reqs[p].in.user, reqs[p].in.mode)) = 3)
                    => statsObjs[reqs[p].stats].pp = 1151

\* request p leaves `await stats.recalc(cur)` in this step
RecalcStep(p) == reqs[p].pc = "recalc" /\ reqs'[p].pc # "recalc"

\* the decay floor of the Stats object of request p, when one is cached
FloorCached(p) == statsObjs[reqs[p].stats].recalc_pp.kind = "tuple"

\* a floor is cached and the pp of the submitted score does not exceed it
AtMostFloor(p) == FloorCached(p) /\ reqs[p].pp <= statsObjs[reqs[p].stats].recalc_pp.v

\* C30: Stats.recalc skips the recompute of pp exactly when a decay floor is
\* cached and the submitted pp does not exceed it, and after every recalc,
\* skipped or not, the pp of the Stats object is the weighted sum over the
\* user's current top 125 values.
C30_SkipAtFloorKeepsSum ==
    [][\A p \in Procs :
        RecalcStep(p) =>
            /\ reqs'[p].failed = ""
            /\ (reqs'[p].recalc = "recomputed") <=> ~AtMostFloor(p)
            /\ statsObjs'[reqs[p].stats].pp = RecalcPp(reqs[p].in.user, reqs[p].in.mode)]_vars

\* ------------------------------------------------------------ the credential cache
Names == {"ann", "bob"}
Fingerprints == {"p1", "p2"}

\* the user id of a name
IdOf(name) == IF name = "ann" THEN 7 ELSE 8

\* what column password_md5 holds: the bcrypt hash of a fingerprint, or a value
\* that is no bcrypt hash
Bcrypt(pw) == [valid |-> TRUE, of |-> pw]
NoHash == [valid |-> FALSE, of |-> ""]

\* bcrypt.checkpw(pw_md5.encode(), res_db[1].encode()), for a hash that is one
CheckPw(pw, hash) == hash = Bcrypt(pw)

\* `if cached_res := self._cache.get(safe_name)` trusting the entry whatever
\* fingerprint it holds
CachedUserAnyFingerprint(c, safe_name, pw_md5) ==
    IF safe_name \in DOMAIN c THEN c[safe_name][1] ELSE 0

\* `if cached_res := self._cache.get(safe_name): if cached_res[1] == pw_md5`:
\* the cached user id, 0 if the cache cannot answer
CachedUser(c, safe_name, pw_md5) ==
    IF safe_name \in DOMAIN c /\ c[safe_name][2] = pw_md5 THEN c[safe_name][1] ELSE 0

SetAuth(a, r) == auths' = [auths EXCEPT ![a] = r]

\* check_user from its entry to the return from the cache or to the SELECT
CheckUserEnter(a, safe_name, pw_md5) ==
    LET r == [IdleAuth EXCEPT !.safe_name = safe_name, !.pw_md5 = pw_md5, !.cacheAt = password]
        id == CachedUser(password, safe_name, pw_md5)
    IN  /\ auths[a].pc = "idle"
        /\ \A b \in 1..(a - 1) : auths[b].pc # "idle"
        /\ SetAuth(a, IF id # 0 THEN [r EXCEPT !.pc = "done", !.ret = id, !.hit = TRUE]
                      ELSE [r EXCEPT !.pc = "select"])
        /\ UNCHANGED <<clockVars, cacheVars, bmapVars, scoreVars, reqs, maxActive, inputs, lbTest,
                       password, users, bus, lookups>>

\* check_user from the answer to the SELECT to its return
CheckUserSelect(a) ==
    LET r == auths[a]
        res_db == IF r.safe_name \in DOMAIN users THEN users[r.safe_name] ELSE <<>>
        r1 == [r EXCEPT !.row = res_db, !.pc = "done"]
    IN  /\ r.pc = "select"
        /\ IF res_db = <<>>
           THEN SetAuth(a, r1) /\ UNCHANGED password
           ELSE IF ~res_db.password_md5.valid
           THEN SetAuth(a, [r1 EXCEPT !.pc = "raised"]) /\ UNCHANGED password
           ELSE IF CheckPw(r.pw_md5, res_db.password_md5)
           THEN /\ password' = DictPut(password, r.safe_name, <<res_db.id, r.pw_md5>>)
                /\ SetAuth(a, [r1 EXCEPT !.ret = res_db.id])
           ELSE SetAuth(a, r1) /\ UNCHANGED password
        /\ UNCHANGED <<clockVars, cacheVars, bmapVars, scoreVars, reqs, maxActive, inputs, lbTest,
                       users, bus, lookups>>

\* the user changes the password on the website: the row gets a new hash
ChangePassword(safe_name, pw_md5) ==
    /\ safe_name \in DOMAIN users
    /\ users[safe_name].password_md5 # Bcrypt(pw_md5)
    /\ users' = [users EXCEPT ![safe_name].password_md5 = Bcrypt(pw_md5)]
    /\ UNCHANGED <<clockVars, cacheVars, bmapVars, scoreVars, reqs, maxActive, inputs, lbTest,
                   password, auths, bus, lookups>>

\* the tables users may be: "ann" is registered or not, "bob" is registered
\* with a password hash or with a value from before the hashes
UsersTables ==
    {[n \in D |-> [id |-> IdOf(n),
                   password_md5 |-> IF n = "ann" THEN Bcrypt(pw) ELSE h]] :
        D \in {{"bob"}, Names}, pw \in Fingerprints, h \in {Bcrypt("p1"), NoHash}}

AuthInit ==
    /\ ClockCacheInit
    /\ ScoresInit
    /\ objs = BlankObjs
    /\ no_check_md5s = <<>>
    /\ beatmaps = <<>>
    /\ mirror = [h \in Hashes |-> NotFound]
    /\ reqs = [p \in Procs |-> IdleReq]
    /\ maxActive = 0
    /\ inputs = {}
    /\ lbTest = NoLeaderboard
    /\ bus = NoBus
    /\ lookups = NoLookups
    /\ password = <<>>
    /\ users \in UsersTables
    /\ auths = [a \in 1..MaxChecks |-> IdleAuth]

AuthNext ==
    \/ \E a \in 1..MaxChecks, n \in Names, pw \in Fingerprints : CheckUserEnter(a, n, pw)
    \/ \E a \in 1..MaxChecks : CheckUserSelect(a)
    \/ \E n \in Names, pw \in Fingerprints : ChangePassword(n, pw)

SpecAuth == AuthInit /\ [][AuthNext]_vars

\* a call that returned a user id was answered by a cache entry holding the
\* fingerprint submitted, or by a row whose hash the fingerprint verifies
ReturnsOnlyVerified ==
    \A a \in 1..MaxChecks :
        (auths[a].pc = "done" /\ auths[a].ret # 0) =>
            \/ /\ auths[a].hit
               /\ auths[a].safe_name \in DOMAIN auths[a].cacheAt
               /\ auths[a].cacheAt[auths[a].safe_name] = <<auths[a].ret, auths[a].pw_md5>>
            \/ /\ ~auths[a].hit
               /\ auths[a].row # <<>>
               /\ auths[a].row.id = auths[a].ret
               /\ auths[a].row.password_md5 = Bcrypt(auths[a].pw_md5)

\* a step that changes the credential cache is the return of a call whose
\* fingerprint the row's hash has just verified, and it caches that user id
\* and fingerprint under that name
CachesOnlyVerified ==
    password' # password =>
        \E a \in 1..MaxChecks :
            /\ auths[a].pc = "select"
            /\ auths'[a].pc = "done"
            /\ auths'[a].ret # 0
            /\ auths'[a].row.password_md5 = Bcrypt(auths[a].pw_md5)
            /\ password' = DictPut(password, auths[a].safe_name, <<auths'[a].ret, auths[a].pw_md5>>)

\* C14: check_user returns a user id other than 0 only if the fingerprint
\* submitted equals the cached fingerprint of the name, or the store has a row
\* for the name and bcrypt verifies the fingerprint against it; the credential
\* cache is written only on such a verification, so that a check that fails
\* leaves it as it was.
C14_CheckUserVerifies == []ReturnsOnlyVerified /\ [][CachesOnlyVerified]_vars

\* a login was verified against the store and cached, a second one with the
\* same fingerprint was answered by the cache, and a third with another
\* fingerprint failed and left the entry in the cache
C14_Witness ==
    /\ auths[1].pc = "done" /\ auths[1].ret = 7 /\ ~auths[1].hit
    /\ auths[2].pc = "done" /\ auths[2].ret = 7 /\ auths[2].hit
    /\ auths[3].pc = "done" /\ auths[3].ret = 0 /\ auths[3].safe_name = "ann"
    /\ auths[3].row # <<>>
    /\ password = auths[3].cacheAt
    /\ "ann" \in DOMAIN password

\* call a returns a user id in this step
ReturnsId(a) == auths[a].pc # "done" /\ auths'[a].pc = "done" /\ auths'[a].ret # 0

\* the fingerprint of call a is the password of its name in table users now
CurrentPassword(a) ==
    /\ auths'[a].safe_name \in DOMAIN users
    /\ users[auths'[a].safe_name].password_md5.valid
    /\ CheckPw(auths'[a].pw_md5, users[auths'[a].safe_name].password_md5)

\* C36: after the password of a user has been changed in table users,
\* check_user no longer returns the user's id for the old fingerprint: a call
\* returns an id only for the fingerprint the row verifies at that time.
C36_OldFingerprintRejected ==
    [][\A a \in 1..MaxChecks : ReturnsId(a) => CurrentPassword(a)]_vars

\* ------------------------------------------------------------ a Leaderboard on its own
LbInit ==
    /\ ClockCacheInit
    /\ QuietInit
    /\ lbTest \in {[NoLeaderboard EXCEPT !.mode = m] : m \in Modes}

\* leaderboard.add_score(score) for a score that was just given its id
LbAddScore(user_id, score, pp) ==
    /\ lbTest.n < MaxAdds
    /\ lbTest' = [lbTest EXCEPT
            !.list = AddScore(@, LbEntry(lbTest.n + 1, user_id, score, pp), lbTest.mode),
            !.n = @ + 1,
            !.last[user_id] = lbTest.n + 1]
    /\ UNCHANGED <<clockVars, cacheVars, bmapVars, scoreVars, reqs, maxActive, inputs,
                   authVars, bus, lookups>>

\* leaderboard.remove_user(user_id)
LbRemoveUser(user_id) ==
    /\ lbTest' = [lbTest EXCEPT !.list = RemoveUser(@, user_id), !.last[user_id] = 0]
    /\ UNCHANGED <<clockVars, cacheVars, bmapVars, scoreVars, reqs, maxActive, inputs,
                   authVars, bus, lookups>>

LbNext ==
    \/ \E u \in Users, sc \in 1..2, pp \in 1..2 : LbAddScore(u, sc, pp)
    \/ \E u \in Users : LbRemoveUser(u)

SpecLb == LbInit /\ [][LbNext]_vars

\* C7: after any calls of add_score and remove_user a Leaderboard holds at most
\* one entry per user, that entry is the score added last for the user (none
\* after remove_user), and the list descends by the ranking metric.
C7_OneEntryPerUserSorted ==
    LET s == lbTest.list
    IN  /\ \A u \in Users :
            /\ Cardinality({i \in 1..Len(s) : s[i].user_id = u}) <= 1
            /\ lbTest.last[u] = 0 => FindUserRank(s, u) = 0
            /\ lbTest.last[u] # 0 => /\ FindUserRank(s, u) # 0
                                     /\ s[FindUserRank(s, u)].id = lbTest.last[u]
        /\ \A i \in 1..(Len(s) - 1) : Metric(lbTest.mode, s[i]) >= Metric(lbTest.mode, s[i + 1])

\* add_score was called twice for one user and once, with a better score, for the other
C7_Witness ==
    /\ lbTest.n = 3
    /\ Len(lbTest.list) = 2
    /\ lbTest.list[2].id = 2
    /\ lbTest.list[1].id = 3
    /\ lbTest.list[1].user_id # lbTest.list[2].user_id
====
